---- MODULE Spec2Model ----
(***************************************************************************)
(* The Intcode computer of src/intcode/src/lib.rs (struct Computer) driven *)
(* by a caller that constructs it, calls resume()/run_program() and feeds   *)
(* the input carrier between calls.                                         *)
(*                                                                          *)
(* One behaviour is one engine: Init is the state after Computer::new, one  *)
(* action is one iteration of the loop of resume() (execute_instruction and *)
(* the handling of the NextState it returns), and pc tells whether the      *)
(* caller ("idle") or the loop of resume() ("running") has control, or the  *)
(* thread has panicked ("panicked").                                        *)
(*                                                                          *)
(* The feedback ring of src/07-amplification-circuit/src/main.rs is a       *)
(* second system in the same module (SpecChain): the main thread of         *)
(* run_amplifier_chain_with_feedback, its five channels and the five engine *)
(* threads it spawns, each running day 7's own Computer.  The variables of  *)
(* the one system rest while the other runs.                                *)
(*                                                                          *)
(* A Vec<MemoryType> is held run-length encoded: a sequence of runs         *)
(* <<value, count>>, count > 0, neighbouring runs of different values, so   *)
(* that every vector has exactly one encoding and a tape of MAX_MEMORY      *)
(* cells is a handful of runs (see Vec).                                    *)
(*                                                                          *)
(* Memory words are TLA+ integers.  TLC's integers are 32 bits wide, so the *)
(* programs of the model keep every value small enough that no i64          *)
(* operation of the code overflows; the two casts the code applies to a     *)
(* negative word (as usize, as u32) are modelled by what they do, see       *)
(* AsUsize, u32_mod100 and u32_div100.                                      *)
(*                                                                          *)
(* Values beyond 32 bits are run in a part of their own (SpecWide), where a *)
(* word is the sequence of its bytes and the arithmetic is done byte by     *)
(* byte.  The engine of src/09-sensor-boost/src/main.rs, which differs from *)
(* that of lib.rs in its INPUT arm and in run_program, is SpecSync's.       *)
(*                                                                          *)
(* find_best_phase_settings of day 7, which runs the chain of amplifiers    *)
(* (run_amplifier_chain, or the ring) once for each item of the Heap        *)
(* iterator, is SpecSearch; VacuumRobot::dry_run of                         *)
(* src/17-set-and-forget/src/main.rs, a caller of the engine of lib.rs, is  *)
(* SpecDryRun.                                                              *)
(***************************************************************************)
EXTENDS Integers, Sequences, FiniteSets, TLC

VARIABLES
    program,        \* the caller's slice handed to Computer::new (encoded)
    tape,           \* Computer.tape    (Vec<MemoryType>, encoded)
    input,          \* Computer.input   (the values the input carrier holds)
    in_kind,        \* the carrier type I: "VecDeque" or "Option"
    output,         \* Computer.output  (the values the carrier has accepted)
    out_kind,       \* the carrier type O: "Vec", "VecDeque", "Option" or
                    \* "Sender" (mpsc channel)
    rx_alive,       \* Sender only: the channel's Receiver has not been dropped
    last_output,    \* Computer.last_output
    ip,             \* Computer.ip
    run_state,      \* Computer.run_state
    relative_base,  \* Computer.relative_base
    pc,             \* "idle" | "running" | "panicked"
    ret,            \* the RunState the last call of resume() returned
    written,        \* the operands of the Output instructions executed so far
    enqueued,       \* the values put into the input carrier so far
    taken,          \* the values the input carrier has handed out so far
    ev,             \* the last step taken: what it was and what it stored or wrote
    \* run_amplifier_chain_with_feedback (day 7)
    phase_settings, \* its argument phase_settings: [u8; 5]
    initial_input,  \* its argument initial_input
    main_pc,        \* where the main thread is: <<"seed", i>>, <<"send">>,
                    \* <<"spawn", i>>, <<"join", i>>, <<"returned">>,
                    \* <<"panicked">>, or <<"off">> when the ring is not run
    txs,            \* the Vec txs: the Senders not yet moved, by channel
    rxs,            \* the Vec rxs: the Receivers not yet moved, by channel
    chan,           \* for each channel, the values in flight
    seeded,         \* for each channel, the values the main thread has sent
    result,         \* the local result of the join loop
    amp_tx,         \* for each engine thread, the channel of its Sender
    amp_rx,         \* for each engine thread, the channel of its Receiver
    amp_pc,         \* "unspawned" | "running" | "done" | "panicked"
    amp_tape,       \* Computer.tape of each engine
    amp_ip,         \* Computer.ip of each engine
    amp_last_output,\* Computer.last_output of each engine
    amp_read,       \* the values each engine has read so far
    amp_written,    \* the operands of the Output instructions of each engine
    \* find_best_phase_settings and run_amplifier_chain (day 7)
    feedback,       \* its argument feedback
    permutations,   \* the iterator permutohedron::Heap over phase_settings
    highest_thruster_value, \* its local highest_thruster_value
    next_input,     \* the local next_input of run_amplifier_chain
    find_pc,        \* where find_best_phase_settings is: "next" (at the head
                    \* of its loop), <<"chain", i>> (run_amplifier_chain in
                    \* iteration i), "feedback" (in the ring), "returned",
                    \* "panicked", or "off" when it is not called
    thruster_inputs,\* the pairs <<phase_setting, thruster_input>> of the
                    \* iterations of its loop so far
    \* VacuumRobot::dry_run (day 17)
    robot_pc,       \* where dry_run is: "dry_run" (in run_program, or in the
                    \* loop on its result), "camera" (past the loop, reading
                    \* the output), or "off" when it is not called
    printed         \* the lines "NEED INPUT" printed so far, counted modulo
                    \* MaxPrinted

vars == <<program, tape, input, in_kind, output, out_kind, rx_alive, last_output,
          ip, run_state, relative_base, pc, ret, written, enqueued, taken, ev,
          phase_settings, initial_input, main_pc, txs, rxs, chan, seeded,
          result, amp_tx, amp_rx, amp_pc, amp_tape, amp_ip, amp_last_output,
          amp_read, amp_written, feedback, permutations,
          highest_thruster_value, next_input, find_pc, thruster_inputs,
          robot_pc, printed>>

engine == <<tape, input, output, last_output, ip, run_state, relative_base>>

\* the search of day 7 for the best phase settings
search == <<feedback, permutations, highest_thruster_value, next_input, find_pc,
            thruster_inputs>>

\* the robot of day 17
robot == <<robot_pc, printed>>

\* the ring of day 7 and the search that runs it, and with them the robot:
\* what the engine of lib.rs and its calls leave alone
chain == <<phase_settings, initial_input, main_pc, txs, rxs, chan, seeded,
           result, amp_tx, amp_rx, amp_pc, amp_tape, amp_ip, amp_last_output,
           amp_read, amp_written, search, robot>>

\* the single engine and its caller, without the program
single == <<tape, input, in_kind, output, out_kind, rx_alive, last_output, ip,
            run_state, relative_base, pc, ret, written, enqueued, taken, ev>>

----------------------------------------------------------------------------
(* Bounds of the model *)

\* the caller keeps at most this many values pending in the input queue
MaxQueue == 2

\* the caller puts at most this many values into the input carrier in all
MaxSupplied == 3

\* a caller that writes to an output carrier itself writes at most this many
MaxWritten == 3

\* the values the caller supplies
InputValues == {0, 7}

----------------------------------------------------------------------------
(* Constants of the program *)

ADD == 1
MULTIPLY == 2
INPUT == 3
OUTPUT == 4
JUMP_IF_TRUE == 5
JUMP_IF_FALSE == 6
LESS_THAN == 7
EQUALS == 8
RELATIVE_BASE_OFFSET == 9
HALT == 99

MAX_MEMORY == 1024 * 1024

\* enum RunState
NotYetStarted == <<"NotYetStarted">>
NeedInput == <<"NeedInput">>
Stopped(v) == <<"Stopped", v>>

IsStopped(s) == s[1] = "Stopped"

----------------------------------------------------------------------------
(* Casts *)

\* Stands for 2^64 in the result of `as usize`: the largest integer TLC holds.
\* A negative word w becomes 2^64 + w, an address far beyond MAX_MEMORY that
\* only load (which answers 0), store (which panics) and the fetch at ip
\* (which reads 0) ever see.
USIZE_TOP == 2 * 1073741823 + 1

\* `w as usize`
AsUsize(w) == IF w >= 0 THEN w ELSE USIZE_TOP + w

\* `(w as u32) % 100`: for w < 0 the cast yields 2^32 + w, and
\* 2^32 = 42949672 * 100 + 96.
u32_mod100(w) == IF w >= 0 THEN w % 100 ELSE (96 + w) % 100

\* `(w as u32) / 100`
u32_div100(w) == IF w >= 0 THEN w \div 100 ELSE 42949672 + ((96 + w) \div 100)

----------------------------------------------------------------------------
(* Vec<MemoryType>, run-length encoded *)

\* k cells holding v
Run(v, k) == IF k <= 0 THEN <<>> ELSE <<<<v, k>>>>

\* the vector s followed by the vector t
Join(s, t) ==
    IF s = <<>> THEN t
    ELSE IF t = <<>> THEN s
    ELSE IF s[Len(s)][1] = t[1][1]
         THEN SubSeq(s, 1, Len(s) - 1)
                  \o <<<<t[1][1], s[Len(s)][2] + t[1][2]>>>>
                  \o Tail(t)
         ELSE s \o t

\* the encoding of the vector whose cells are the elements of q
RECURSIVE Vec(_)
Vec(q) == IF q = <<>> THEN <<>> ELSE Join(Run(Head(q), 1), Vec(Tail(q)))

\* the number of cells in the runs i, i + 1, ... of t
RECURSIVE LenFrom(_, _)
LenFrom(t, i) == IF i > Len(t) THEN 0 ELSE t[i][2] + LenFrom(t, i + 1)

\* Vec::len
VecLen(t) == LenFrom(t, 1)

\* cell a of the vector made of the runs i, i + 1, ... of t
RECURSIVE CellFrom(_, _, _)
CellFrom(t, i, a) == IF a < t[i][2] THEN t[i][1] ELSE CellFrom(t, i + 1, a - t[i][2])

\* t[a], for a < VecLen(t)
Cell(t, a) == CellFrom(t, 1, a)

\* the first n cells of t
RECURSIVE Prefix(_, _)
Prefix(t, n) ==
    IF n = 0 \/ t = <<>> THEN <<>>
    ELSE IF t[1][2] <= n THEN <<t[1]>> \o Prefix(Tail(t), n - t[1][2])
    ELSE <<<<t[1][1], n>>>>

\* t without its first n cells
RECURSIVE Suffix(_, _)
Suffix(t, n) ==
    IF n = 0 \/ t = <<>> THEN t
    ELSE IF t[1][2] <= n THEN Suffix(Tail(t), n - t[1][2])
    ELSE <<<<t[1][1], t[1][2] - n>>>> \o Tail(t)

\* Vec::resize(new_len, value), for new_len >= VecLen(t)
resize(t, new_len, value) == Join(t, Run(value, new_len - VecLen(t)))

\* t[a] = value, for a < VecLen(t)
set(t, a, value) == Join(Join(Prefix(t, a), Run(value, 1)), Suffix(t, a + 1))

\* the cells a .. b - 1 of t
Cells(t, a, b) == Suffix(Prefix(t, b), a)

----------------------------------------------------------------------------
(* Memory *)

\* load that answers the last cell for an address beyond the extent
load_clamps(address) ==
    IF address < VecLen(tape) THEN Cell(tape, address)
    ELSE IF tape = <<>> THEN 0 ELSE Cell(tape, VecLen(tape) - 1)

\* fn load(&self, address: usize) -> MemoryType
load(address) == IF address < VecLen(tape) THEN Cell(tape, address) ELSE 0

\* store that still admits the address MAX_MEMORY
store_panics_above_limit(address) ==
    address >= VecLen(tape) /\ ~(address <= MAX_MEMORY)

\* store that checks the new length in bytes against the limit in cells
store_panics_wrong_unit(address) ==
    address >= VecLen(tape) /\ ~(address < 8 * MAX_MEMORY)

\* fn store: the panic "Attempt to resize beyond memory limit"
store_panics(address) == address >= VecLen(tape) /\ ~(address < MAX_MEMORY)

\* store whose resize fills the new cells with the value
store_fills_value(address, value) ==
    LET resized == IF address >= VecLen(tape)
                   THEN resize(tape, address + 1, value)
                   ELSE tape
    IN  set(resized, address, value)

\* fn store(&mut self, address: usize, value: MemoryType): the tape it leaves
store(address, value) ==
    LET resized == IF address >= VecLen(tape)
                   THEN resize(tape, address + 1, 0)
                   ELSE tape
    IN  set(resized, address, value)

----------------------------------------------------------------------------
(* Parameter modes and operands *)

\* impl From<u32> for ParameterMode; "Invalid" is the panic arm
ParameterModeFrom(value) ==
    CASE value = 0 -> "Position"
      [] value = 1 -> "Immediate"
      [] value = 2 -> "Relative"
      [] OTHER -> "Invalid"

\* load_operand that leaves the relative base out
load_operand_without_base(offset, mode) ==
    CASE mode = "Position" -> load(AsUsize(load(offset)))
      [] mode = "Immediate" -> load(offset)
      [] mode = "Relative" -> load(AsUsize(load(offset)))

\* load_operand that takes the operand word itself in every mode
load_operand_as_immediate(offset, mode) == load(offset)

\* load_operand with the arms of Position and Immediate exchanged
load_operand_swapped(offset, mode) ==
    CASE mode = "Position" -> load(offset)
      [] mode = "Immediate" -> load(AsUsize(load(offset)))
      [] mode = "Relative" -> load(AsUsize(load(offset) + relative_base))

\* fn load_operand(&self, offset: usize, mode: ParameterMode) -> MemoryType
load_operand(offset, mode) ==
    CASE mode = "Position" -> load(AsUsize(load(offset)))
      [] mode = "Immediate" -> load(offset)
      [] mode = "Relative" -> load(AsUsize(load(offset) + relative_base))

\* output_pos that leaves out the relative base
output_pos_without_base(offset, mode) ==
    CASE mode = "Position" -> AsUsize(load(offset))
      [] mode = "Relative" -> AsUsize(load(offset))

\* fn store_operand: output_pos
output_pos(offset, mode) ==
    CASE mode = "Position" -> AsUsize(load(offset))
      [] mode = "Relative" -> AsUsize(load(offset) + relative_base)

\* fn store_operand: "Write to immediate not allowed!" or the panic of store
store_operand_panics(offset, mode) ==
    \/ mode = "Immediate"
    \/ store_panics(output_pos(offset, mode))

\* fn store_operand(&mut self, offset, mode, value): the tape it leaves
store_operand(offset, mode, value) == store(output_pos(offset, mode), value)

\* should_jump that takes Jump-if-false for Jump-if-true
should_jump_on_true(condition, op) == condition # 0

\* fn should_jump(condition: MemoryType, opcode: u32) -> bool
should_jump(condition, op) ==
    CASE op = JUMP_IF_TRUE -> condition # 0
      [] op = JUMP_IF_FALSE -> condition = 0

\* operation whose LESS_THAN is "not greater"
operation_less_or_equal(a, b, op) ==
    CASE op = ADD -> a + b
      [] op = MULTIPLY -> a * b
      [] op = LESS_THAN -> IF a <= b THEN 1 ELSE 0
      [] op = EQUALS -> IF a = b THEN 1 ELSE 0

\* fn operation(a: MemoryType, b: MemoryType, opcode: u32) -> MemoryType
operation(a, b, op) ==
    CASE op = ADD -> a + b
      [] op = MULTIPLY -> a * b
      [] op = LESS_THAN -> IF a < b THEN 1 ELSE 0
      [] op = EQUALS -> IF a = b THEN 1 ELSE 0

----------------------------------------------------------------------------
(* Decoding, the head of execute_instruction *)

\* the instruction word taken from the program the engine was constructed
\* from, not from its tape
instruction_of_program ==
    IF ip < VecLen(program) THEN Cell(program, ip) ELSE 0

\* let instruction = self.load(self.ip) as u32, before the cast
instruction == load(ip)

\* let opcode = instruction % 100
opcode == u32_mod100(instruction)

\* the digits taken in the reverse order: the first operand's from the
\* ten-thousands place
mode_digit_reversed(i) ==
    CASE i = 0 -> (u32_div100(instruction) \div 100) % 10
      [] i = 1 -> (u32_div100(instruction) \div 10) % 10
      [] i = 2 -> u32_div100(instruction) % 10

\* the digits (instruction / 100) % 10, (instruction / 1000) % 10 and
\* (instruction / 10000) % 10, for i = 0, 1, 2
mode_digit(i) ==
    CASE i = 0 -> u32_div100(instruction) % 10
      [] i = 1 -> (u32_div100(instruction) \div 10) % 10
      [] i = 2 -> (u32_div100(instruction) \div 100) % 10

\* modes[i]
modes(i) == ParameterModeFrom(mode_digit(i))

\* the modes checked only for the operands the opcode has
modes_valid_lazy ==
    LET arity == CASE opcode \in {ADD, MULTIPLY, LESS_THAN, EQUALS} -> 3
                   [] opcode \in {JUMP_IF_TRUE, JUMP_IF_FALSE} -> 2
                   [] opcode \in {INPUT, OUTPUT, RELATIVE_BASE_OFFSET} -> 1
                   [] OTHER -> 0
    IN  \A i \in 0..2 : i < arity => modes(i) # "Invalid"

\* none of the three ParameterMode::from calls panics
modes_valid == \A i \in 0..2 : modes(i) # "Invalid"

Opcodes == {ADD, MULTIPLY, INPUT, OUTPUT, JUMP_IF_TRUE, JUMP_IF_FALSE,
            LESS_THAN, EQUALS, RELATIVE_BASE_OFFSET, HALT}

----------------------------------------------------------------------------
(* Carriers *)

\* VecDeque::pop_front: <<>> is None, <<v>> is Some(v)
pop_front(q) == IF q = <<>> THEN <<>> ELSE <<Head(q)>>

\* Option::take: what the slot holds
take(q) == q

\* try_read that takes a pending 0 for "no value"
try_read_zero_is_none ==
    IF input = <<>> \/ Head(input) = 0 THEN <<>> ELSE <<Head(input)>>

\* try_read that pops the back of the queue
try_read_pops_back ==
    IF input = <<>> THEN <<>> ELSE <<input[Len(input)]>>

\* impl Input for VecDeque, for Option: try_read is pop_front, take
try_read == IF in_kind = "Option" THEN take(input) ELSE pop_front(input)

\* what the carrier holds after try_read: take leaves None
try_read_rest ==
    IF in_kind = "Option" THEN <<>>
    ELSE IF input = <<>> THEN <<>> ELSE Tail(input)

\* impl Input for VecDeque, for Option: read is Ok of what pop_front, take
\* yields, or Err
read ==
    LET t == IF in_kind = "Option" THEN take(input) ELSE pop_front(input)
    IN  IF t = <<>> THEN <<"Err">> ELSE <<"Ok", t[1]>>

\* what the carrier holds after read
read_rest == try_read_rest

\* impl Output: write answers Ok(()) (Sender: while the Receiver lives)
write_ok == out_kind # "Sender" \/ rx_alive

\* write for Option that keeps a value the slot already holds
write_keeps_first(t) ==
    CASE out_kind = "Option" -> IF output = <<>> THEN <<t>> ELSE output
      [] out_kind = "Sender" -> IF rx_alive THEN Append(output, t) ELSE output
      [] OTHER -> Append(output, t)

\* the values the carrier holds after write(t): Vec::push, VecDeque::push_back,
\* *self = Some(t), Sender::send
write(t) ==
    CASE out_kind = "Option" -> <<t>>
      [] out_kind = "Sender" -> IF rx_alive THEN Append(output, t) ELSE output
      [] OTHER -> Append(output, t)

----------------------------------------------------------------------------
(* The events recorded in ev *)

Event(act, op, addr, val) == [act |-> act, op |-> op, addr |-> addr, val |-> val]

NoAddr == 0 - 1

----------------------------------------------------------------------------
(* The programs an engine is constructed from *)

\* instruction words: every opcode, in the addressing modes that matter, the
\* words that do not decode, and the words that write through Immediate mode
Words == {1, 101, 1001, 1101, 21101, 10001, 11101,
          2, 1102, 7, 1107, 8, 1108,
          3, 203, 103,
          4, 104, 204,
          5, 105, 1105, 6, 1006, 1106,
          9, 109, 209,
          99, 0, 10, 301, 3099, 30004, 30003, 30105, 3109, 0 - 1}

\* source operand words: an address in the program (0, 3) and a negative word
Operands == {0 - 1, 0, 3}

\* destination operand words: the same, and an address beyond the program
Destinations == Operands \cup {9}

\* one instruction word with three operand words, then "output cell 3, halt"
Family == {<<w, a, b, c, 4, 3, 99>> : w \in Words, a \in Operands,
                                      b \in Operands, c \in Destinations}

\* the same behind an adjustment of the relative base
RelWords == {21101, 2201, 22201, 203, 204, 209}

RelFamily == {<<109, r, w, a, b, c, 4, 5, 99>> :
                  r \in {0 - 2, 3}, w \in RelWords, a \in Operands,
                  b \in {0, 3}, c \in Destinations}

\* the programs of the tests of lib.rs (without the two whose values exceed
\* 32 bits)
TestPrograms == {
    <<1, 0, 0, 0, 99>>,
    <<2, 3, 0, 3, 99>>,
    <<2, 4, 4, 5, 99, 0>>,
    <<1, 1, 1, 4, 99, 5, 6, 0, 99>>,
    <<3, 0, 4, 0, 99>>,
    <<1002, 4, 3, 4, 33>>,
    <<3, 21, 1008, 21, 8, 20, 1005, 20, 22, 107, 8, 21, 20, 1006, 20, 31,
      1106, 0, 36, 98, 0, 0, 1002, 21, 125, 20, 4, 20, 1105, 1, 46, 104,
      999, 1105, 1, 46, 1101, 1000, 1, 20, 4, 20, 1105, 1, 46, 98, 99>>,
    <<109, 1, 204, 0 - 1, 1001, 100, 1, 100, 1008, 100, 16, 101, 1006, 101,
      0, 99>> }

\* programs that read, write and halt more than once
IoPrograms == {
    <<3, 9, 4, 9, 3, 10, 104, 5, 99>>,
    <<104, 3, 3, 0, 104, 4, 99>>,
    <<3, 0, 1105, 1, 0>>,
    <<104, 1, 104, 2, 204, 1, 99>>,
    <<99>>,
    <<>> }

\* programs that store at the memory limit, MAX_MEMORY - 1 being the last
\* address below it
LimitPrograms == {
    <<1101, 1, 2, MAX_MEMORY - 1, 4, MAX_MEMORY - 1, 99>>,
    <<1101, 1, 2, MAX_MEMORY, 99>>,
    <<1101, 1, 2, MAX_MEMORY - 1, 1101, 1, 2, MAX_MEMORY, 99>>,
    <<1101, 1, 2, MAX_MEMORY - 1, 1101, 3, 4, MAX_MEMORY - 1, 99>>,
    <<3, MAX_MEMORY - 1, 99>>,
    <<109, MAX_MEMORY - 3, 21101, 1, 2, 3, 99>>,
    <<109, MAX_MEMORY - 3, 21101, 1, 2, 2, 99>>,
    <<1105, 1, 3, 203, MAX_MEMORY - 1, 77>> }

\* a program of MAX_MEMORY + 1 words: it stores into its last cell, at
\* address MAX_MEMORY, and into the cell before it
LongProgram ==
    Join(Vec(<<1101, 5, 6, MAX_MEMORY, 1101, 1, 2, MAX_MEMORY - 1, 99>>),
         Run(0, MAX_MEMORY - 8))

Programs == {Vec(p) : p \in Family \cup RelFamily \cup TestPrograms
                                \cup IoPrograms \cup LimitPrograms}
                \cup {LongProgram}

\* the queues an engine is constructed with
InitQueues == {<<>>, <<7>>}

----------------------------------------------------------------------------
(* Computer::new *)

\* the five engines of the ring
AMPLIFIERS == 5

Amps == 0..(AMPLIFIERS - 1)

\* find_best_phase_settings is not called
SearchOff ==
    /\ feedback = FALSE
    /\ permutations = <<>>
    /\ highest_thruster_value = 0
    /\ next_input = 0
    /\ find_pc = "off"
    /\ thruster_inputs = {}

\* VacuumRobot::dry_run is not called
RobotOff ==
    /\ robot_pc = "off"
    /\ printed = 0

\* run_amplifier_chain_with_feedback is not called
ChainOff ==
    /\ SearchOff
    /\ RobotOff
    /\ phase_settings = <<>>
    /\ initial_input = 0
    /\ main_pc = <<"off">>
    /\ txs = <<>>
    /\ rxs = <<>>
    /\ chan = [c \in Amps |-> <<>>]
    /\ seeded = [c \in Amps |-> <<>>]
    /\ result = 0
    /\ amp_tx = [i \in Amps |-> NoAddr]
    /\ amp_rx = [i \in Amps |-> NoAddr]
    /\ amp_pc = [i \in Amps |-> "unspawned"]
    /\ amp_tape = [i \in Amps |-> <<>>]
    /\ amp_ip = [i \in Amps |-> 0]
    /\ amp_last_output = [i \in Amps |-> 0]
    /\ amp_read = [i \in Amps |-> <<>>]
    /\ amp_written = [i \in Amps |-> <<>>]

\* the programs that are also run with a channel for output carrier
SenderPrograms == {Vec(p) : p \in TestPrograms \cup IoPrograms}

Init ==
    /\ \/ program \in Programs /\ out_kind = "Vec"
       \/ program \in SenderPrograms /\ out_kind = "Sender"
    /\ tape = program
    /\ input \in InitQueues
    /\ in_kind = "VecDeque"
    /\ output = <<>>
    /\ rx_alive = TRUE
    /\ last_output = 0
    /\ ip = 0
    /\ run_state = NotYetStarted
    /\ relative_base = 0
    /\ pc = "idle"
    /\ ret = <<"none">>
    /\ written = <<>>
    /\ enqueued = input
    /\ taken = <<>>
    /\ ev = Event("new", 0, NoAddr, 0)
    /\ ChainOff

----------------------------------------------------------------------------
(* The caller *)

\* resume() without the check of Stopped at its head: the loop is entered again
resume_always_loops ==
    /\ pc = "idle"
    /\ pc' = "running"
    /\ ev' = Event("resume", 0, NoAddr, 0)
    /\ UNCHANGED <<chain, program, in_kind, enqueued, taken,
                   engine, out_kind, rx_alive, ret, written>>

\* resume(): the check of Stopped at its head; otherwise the loop is entered
resume ==
    /\ pc = "idle"
    /\ IF IsStopped(run_state)
       THEN /\ ret' = run_state
            /\ pc' = pc
       ELSE /\ pc' = "running"
            /\ ret' = ret
    /\ ev' = Event("resume", 0, NoAddr, 0)
    /\ UNCHANGED <<chain, program, in_kind, enqueued, taken,
                   engine, out_kind, rx_alive, written>>

\* run_program() that starts the program over
run_program_restarts ==
    /\ pc = "idle"
    /\ pc' = "running"
    /\ ip' = 0
    /\ run_state' = NotYetStarted
    /\ ev' = Event("resume", 0, NoAddr, 0)
    /\ UNCHANGED <<chain, program, in_kind, enqueued, taken, tape, input, output,
                   out_kind, rx_alive, last_output, relative_base, ret, written>>

\* run_program() is self.resume()
run_program == resume


\* push_front(x) in place of push_back(x)
SupplyInput_front(x) ==
    /\ pc = "idle"
    /\ in_kind = "VecDeque"
    /\ Len(input) < MaxQueue
    /\ Len(enqueued) < MaxSupplied
    /\ input' = <<x>> \o input
    /\ enqueued' = Append(enqueued, x)
    /\ ev' = Event("supply", 0, NoAddr, x)
    /\ UNCHANGED <<chain, program, in_kind, taken, tape, output, out_kind, rx_alive, last_output, ip,
                   run_state, relative_base, pc, ret, written>>

\* get_input().push_back(x) between two calls
SupplyInput(x) ==
    /\ pc = "idle"
    /\ in_kind = "VecDeque"
    /\ Len(input) < MaxQueue
    /\ Len(enqueued) < MaxSupplied
    /\ input' = Append(input, x)
    /\ enqueued' = Append(enqueued, x)
    /\ ev' = Event("supply", 0, NoAddr, x)
    /\ UNCHANGED <<chain, program, in_kind, taken, tape, output, out_kind, rx_alive, last_output, ip,
                   run_state, relative_base, pc, ret, written>>

\* the Receiver of the output channel is dropped (by the thread that owns it)
DropReceiver ==
    /\ out_kind = "Sender"
    /\ rx_alive
    /\ pc # "panicked"
    /\ rx_alive' = FALSE
    /\ ev' = Event("drop", 0, NoAddr, 0)
    /\ UNCHANGED <<chain, program, in_kind, enqueued, taken,
                   engine, out_kind, pc, ret, written>>

----------------------------------------------------------------------------
(* execute_instruction, and the arm of the loop of resume() that follows it *)

\* NextState::ContinueRelative(offset): self.ip = (self.ip as isize + offset) as usize
ContinueRelative(offset) == ip + offset

\* NextState::ContinueAbsolute(offset): self.ip = offset
ContinueAbsolute(offset) == offset

\* a panic: the thread unwinds, the engine is left as it is
Panics ==
    /\ pc' = "panicked"
    /\ ev' = Event("panic", opcode, NoAddr, 0)
    /\ UNCHANGED <<chain, program, in_kind, enqueued, out_kind, rx_alive, ret, written>>

\* ADD | MULTIPLY | LESS_THAN | EQUALS on a tape that is the caller's slice
\* itself, not a copy of it
ExecArith_aliases ==
    /\ pc = "running"
    /\ modes_valid
    /\ opcode \in {ADD, MULTIPLY, LESS_THAN, EQUALS}
    /\ LET a == load_operand(ip + 1, modes(0))
           b == load_operand(ip + 2, modes(1))
           v == operation(a, b, opcode)
       IN  IF store_operand_panics(ip + 3, modes(2))
           THEN Panics /\ UNCHANGED <<engine, taken>>
           ELSE /\ tape' = store_operand(ip + 3, modes(2), v)
                /\ program' = tape'
                /\ ip' = ContinueRelative(4)
                /\ ev' = Event("exec", opcode, output_pos(ip + 3, modes(2)), v)
                /\ UNCHANGED <<chain, in_kind, enqueued, taken, input, output,
                               out_kind, rx_alive, last_output, run_state,
                               relative_base, pc, ret, written>>

\* ADD | MULTIPLY | LESS_THAN | EQUALS
ExecArith ==
    /\ pc = "running"
    /\ modes_valid
    /\ opcode \in {ADD, MULTIPLY, LESS_THAN, EQUALS}
    /\ LET a == load_operand(ip + 1, modes(0))
           b == load_operand(ip + 2, modes(1))
           v == operation(a, b, opcode)
       IN  IF store_operand_panics(ip + 3, modes(2))
           THEN Panics /\ UNCHANGED <<engine, taken>>
           ELSE /\ tape' = store_operand(ip + 3, modes(2), v)
                /\ ip' = ContinueRelative(4)
                /\ ev' = Event("exec", opcode, output_pos(ip + 3, modes(2)), v)
                /\ UNCHANGED <<chain, program, in_kind, enqueued, taken,
                               input, output, out_kind, rx_alive,
                               last_output, run_state, relative_base, pc, ret,
                               written>>

\* INPUT that steps over the instruction when it suspends
ExecInput_skips ==
    /\ pc = "running"
    /\ modes_valid
    /\ opcode = INPUT
    /\ LET input_value == try_read
       IN  IF input_value = <<>>
           THEN /\ run_state' = NeedInput
                /\ ret' = NeedInput
                /\ pc' = "idle"
                /\ ip' = ContinueRelative(2)
                /\ ev' = Event("exec", opcode, NoAddr, 0)
                /\ UNCHANGED <<chain, program, in_kind, enqueued, taken,
                               tape, input, output, out_kind, rx_alive,
                               last_output, relative_base, written>>
           ELSE /\ input' = try_read_rest
                /\ taken' = Append(taken, input_value[1])
                /\ IF store_operand_panics(ip + 1, modes(0))
                   THEN /\ Panics
                        /\ UNCHANGED <<tape, output, last_output, ip, run_state,
                                       relative_base>>
                   ELSE /\ tape' = store_operand(ip + 1, modes(0), input_value[1])
                        /\ ip' = ContinueRelative(2)
                        /\ ev' = Event("exec", opcode, output_pos(ip + 1, modes(0)),
                                       input_value[1])
                        /\ UNCHANGED <<chain, program, in_kind, enqueued,
                                       output, out_kind, rx_alive,
                                       last_output, run_state, relative_base, pc,
                                       ret, written>>

\* INPUT that takes any of the pending values, not the first
ExecInput_any ==
    /\ pc = "running"
    /\ modes_valid
    /\ opcode = INPUT
    /\ IF input = <<>>
       THEN /\ run_state' = NeedInput
            /\ ret' = NeedInput
            /\ pc' = "idle"
            /\ ev' = Event("exec", opcode, NoAddr, 0)
            /\ UNCHANGED <<chain, program, in_kind, enqueued, taken,
                           tape, input, output, out_kind, rx_alive,
                           last_output, ip, relative_base, written>>
       ELSE \E k \in 1..Len(input) :
                /\ input' = SubSeq(input, 1, k - 1) \o SubSeq(input, k + 1, Len(input))
                /\ taken' = Append(taken, input[k])
                /\ IF store_operand_panics(ip + 1, modes(0))
                   THEN /\ Panics
                        /\ UNCHANGED <<tape, output, last_output, ip, run_state,
                                       relative_base>>
                   ELSE /\ tape' = store_operand(ip + 1, modes(0), input[k])
                        /\ ip' = ContinueRelative(2)
                        /\ ev' = Event("exec", opcode, output_pos(ip + 1, modes(0)),
                                       input[k])
                        /\ UNCHANGED <<chain, program, in_kind, enqueued,
                                       output, out_kind, rx_alive,
                                       last_output, run_state, relative_base, pc,
                                       ret, written>>

\* INPUT
ExecInput ==
    /\ pc = "running"
    /\ modes_valid
    /\ opcode = INPUT
    /\ LET input_value == try_read
       IN  IF input_value = <<>>
           THEN \* NextState::NeedInput
                /\ run_state' = NeedInput
                /\ ret' = NeedInput
                /\ pc' = "idle"
                /\ ev' = Event("exec", opcode, NoAddr, 0)
                /\ UNCHANGED <<chain, program, in_kind, enqueued, taken,
                               tape, input, output, out_kind, rx_alive,
                               last_output, ip, relative_base, written>>
           ELSE /\ input' = try_read_rest
                /\ taken' = Append(taken, input_value[1])
                /\ IF store_operand_panics(ip + 1, modes(0))
                   THEN /\ Panics
                        /\ UNCHANGED <<tape, output, last_output, ip, run_state,
                                       relative_base>>
                   ELSE /\ tape' = store_operand(ip + 1, modes(0), input_value[1])
                        /\ ip' = ContinueRelative(2)
                        /\ ev' = Event("exec", opcode, output_pos(ip + 1, modes(0)),
                                       input_value[1])
                        /\ UNCHANGED <<chain, program, in_kind, enqueued,
                                       output, out_kind, rx_alive,
                                       last_output, run_state, relative_base, pc,
                                       ret, written>>

\* OUTPUT that hands control back to the caller after the write
ExecOutput_returns ==
    /\ pc = "running"
    /\ modes_valid
    /\ opcode = OUTPUT
    /\ LET output_value == load_operand(ip + 1, modes(0))
       IN  /\ output' = write(output_value)
           /\ last_output' = output_value
           /\ written' = Append(written, output_value)
           /\ ip' = ContinueRelative(2)
           /\ ev' = Event("exec", opcode, NoAddr, output_value)
    /\ pc' = "idle"
    /\ ret' = run_state
    /\ UNCHANGED <<chain, program, in_kind, enqueued, taken,
                   tape, input, out_kind, rx_alive, run_state,
                   relative_base>>

\* OUTPUT that does not remember the value as last output
ExecOutput_forgets ==
    /\ pc = "running"
    /\ modes_valid
    /\ opcode = OUTPUT
    /\ LET output_value == load_operand(ip + 1, modes(0))
       IN  /\ output' = write(output_value)
           /\ written' = Append(written, output_value)
           /\ ip' = ContinueRelative(2)
           /\ ev' = Event("exec", opcode, NoAddr, output_value)
    /\ UNCHANGED <<chain, program, in_kind, enqueued, taken,
                   tape, input, out_kind, rx_alive, last_output,
                   run_state, relative_base, pc, ret>>

\* OUTPUT that unwraps the result of write
ExecOutput_unwraps ==
    /\ pc = "running"
    /\ modes_valid
    /\ opcode = OUTPUT
    /\ LET output_value == load_operand(ip + 1, modes(0))
       IN  IF write_ok
           THEN /\ output' = write(output_value)
                /\ last_output' = output_value
                /\ written' = Append(written, output_value)
                /\ ip' = ContinueRelative(2)
                /\ ev' = Event("exec", opcode, NoAddr, output_value)
                /\ UNCHANGED <<chain, program, in_kind, enqueued, taken,
                               tape, input, out_kind, rx_alive,
                               run_state, relative_base, pc, ret>>
           ELSE /\ pc' = "panicked"
                /\ written' = Append(written, output_value)
                /\ ev' = Event("panic", opcode, NoAddr, output_value)
                /\ UNCHANGED <<chain, program, in_kind, enqueued, taken,
                               engine, out_kind, rx_alive, ret>>

\* OUTPUT
ExecOutput ==
    /\ pc = "running"
    /\ modes_valid
    /\ opcode = OUTPUT
    /\ LET output_value == load_operand(ip + 1, modes(0))
       IN  /\ output' = write(output_value)
           /\ last_output' = output_value
           /\ written' = Append(written, output_value)
           /\ ip' = ContinueRelative(2)
           /\ ev' = Event("exec", opcode, NoAddr, output_value)
    /\ UNCHANGED <<chain, program, in_kind, enqueued, taken,
                   tape, input, out_kind, rx_alive, run_state,
                   relative_base, pc, ret>>

\* JUMP_IF_TRUE | JUMP_IF_FALSE with the target added to ip
ExecJump_relative ==
    /\ pc = "running"
    /\ modes_valid
    /\ opcode \in {JUMP_IF_TRUE, JUMP_IF_FALSE}
    /\ LET condition == load_operand(ip + 1, modes(0))
       IN  IF should_jump(condition, opcode)
           THEN ip' = ContinueRelative(AsUsize(load_operand(ip + 2, modes(1))))
           ELSE ip' = ContinueRelative(3)
    /\ ev' = Event("exec", opcode, NoAddr, 0)
    /\ UNCHANGED <<chain, program, in_kind, enqueued, taken,
                   tape, input, output, out_kind, rx_alive, last_output,
                   run_state, relative_base, pc, ret, written>>

\* JUMP_IF_TRUE | JUMP_IF_FALSE
ExecJump ==
    /\ pc = "running"
    /\ modes_valid
    /\ opcode \in {JUMP_IF_TRUE, JUMP_IF_FALSE}
    /\ LET condition == load_operand(ip + 1, modes(0))
       IN  IF should_jump(condition, opcode)
           THEN ip' = ContinueAbsolute(AsUsize(load_operand(ip + 2, modes(1))))
           ELSE ip' = ContinueRelative(3)
    /\ ev' = Event("exec", opcode, NoAddr, 0)
    /\ UNCHANGED <<chain, program, in_kind, enqueued, taken,
                   tape, input, output, out_kind, rx_alive, last_output,
                   run_state, relative_base, pc, ret, written>>

\* RELATIVE_BASE_OFFSET that sets the base to the operand value
ExecRelativeBase_sets ==
    /\ pc = "running"
    /\ modes_valid
    /\ opcode = RELATIVE_BASE_OFFSET
    /\ LET adjustion == load_operand(ip + 1, modes(0))
       IN  /\ relative_base' = adjustion
           /\ ev' = Event("exec", opcode, NoAddr, adjustion)
    /\ ip' = ContinueRelative(2)
    /\ UNCHANGED <<chain, program, in_kind, enqueued, taken,
                   tape, input, output, out_kind, rx_alive, last_output,
                   run_state, pc, ret, written>>

\* RELATIVE_BASE_OFFSET
ExecRelativeBase ==
    /\ pc = "running"
    /\ modes_valid
    /\ opcode = RELATIVE_BASE_OFFSET
    /\ LET adjustion == load_operand(ip + 1, modes(0))
       IN  /\ relative_base' = relative_base + adjustion
           /\ ev' = Event("exec", opcode, NoAddr, adjustion)
    /\ ip' = ContinueRelative(2)
    /\ UNCHANGED <<chain, program, in_kind, enqueued, taken,
                   tape, input, output, out_kind, rx_alive, last_output,
                   run_state, pc, ret, written>>

\* HALT, and NextState::Terminate
ExecHalt ==
    /\ pc = "running"
    /\ modes_valid
    /\ opcode = HALT
    /\ run_state' = Stopped(last_output)
    /\ ret' = Stopped(last_output)
    /\ pc' = "idle"
    /\ ev' = Event("exec", opcode, NoAddr, 0)
    /\ UNCHANGED <<chain, program, in_kind, enqueued, taken,
                   tape, input, output, out_kind, rx_alive, last_output,
                   ip, relative_base, written>>

\* an unknown opcode taken for HALT
ExecInvalid_halts ==
    /\ pc = "running"
    /\ ~modes_valid \/ opcode \notin Opcodes
    /\ run_state' = Stopped(last_output)
    /\ ret' = Stopped(last_output)
    /\ pc' = "idle"
    /\ ev' = Event("exec", opcode, NoAddr, 0)
    /\ UNCHANGED <<chain, program, in_kind, enqueued, taken,
                   tape, input, output, out_kind, rx_alive, last_output,
                   ip, relative_base, written>>

\* "Invalid parameter mode" and "Invalid opcode"
ExecInvalid ==
    /\ pc = "running"
    /\ ~modes_valid \/ opcode \notin Opcodes
    /\ Panics
    /\ UNCHANGED <<engine, taken>>

execute_instruction ==
    \/ ExecArith
    \/ ExecInput
    \/ ExecOutput
    \/ ExecJump
    \/ ExecRelativeBase
    \/ ExecHalt
    \/ ExecInvalid

Next ==
    \/ run_program
    \/ resume
    \/ \E x \in InputValues : SupplyInput(x)
    \/ DropReceiver
    \/ execute_instruction

Spec == Init /\ [][Next]_vars

----------------------------------------------------------------------------
(* The programs of the tests, run on a queue that holds one value *)

\* the values the queue is constructed with: the values of the tests (7, 8,
\* 9, 42), values around them and around 0, words that are instructions,
\* and the ends of the range of the model's integers
TestValues == {0 - 2147483647, 0 - 8, 0 - 1, 0, 1, 7, 8, 9, 42, 99, 1000,
               2147483647}

\* Computer::new(0, &program, queue![v], Vec::new()), and the same with an
\* empty queue, and with a Sender for output carrier; without the program
\* that executes the value it reads, which need not come to an end
InitTests ==
    /\ program \in {Vec(p) : p \in (TestPrograms \cup IoPrograms)
                                       \ {<<3, 0, 1105, 1, 0>>}}
    /\ out_kind \in {"Vec", "Sender"}
    /\ tape = program
    /\ input \in {<<>>} \cup {<<v>> : v \in TestValues}
    /\ in_kind = "VecDeque"
    /\ output = <<>>
    /\ rx_alive = TRUE
    /\ last_output = 0
    /\ ip = 0
    /\ run_state = NotYetStarted
    /\ relative_base = 0
    /\ pc = "idle"
    /\ ret = <<"none">>
    /\ written = <<>>
    /\ enqueued = input
    /\ taken = <<>>
    /\ ev = Event("new", 0, NoAddr, 0)
    /\ ChainOff

SpecTests == InitTests /\ [][Next]_vars

----------------------------------------------------------------------------
(* MemoryType = i64 beyond the integers of the model: a word as its bytes *)

\* In this part a word of the tape is the sequence of the bytes of its
\* value, least significant first, without zero bytes at the top (0 is
\* <<>>), so that a value of up to 63 bits is held exactly; the words of
\* this part are not negative, and its programs keep every sum and product
\* below 2^63 (see WideInRange).
BYTE == 256

\* the word of a small integer n >= 0
RECURSIVE i64_from(_)
i64_from(n) == IF n = 0 THEN <<>> ELSE <<n % BYTE>> \o i64_from(n \div BYTE)

\* a word below 2^31
i64_is_small(w) == Len(w) < 4 \/ (Len(w) = 4 /\ w[4] < 128)

\* the integer of a word below 2^31
RECURSIVE i64_small(_)
i64_small(w) == IF w = <<>> THEN 0 ELSE w[1] + BYTE * i64_small(Tail(w))

\* a + b + c byte by byte, c the carry
RECURSIVE add_carry(_, _, _)
add_carry(a, b, c) ==
    IF a = <<>> /\ b = <<>>
    THEN IF c = 0 THEN <<>> ELSE <<c>>
    ELSE LET x == IF a = <<>> THEN 0 ELSE a[1]
             y == IF b = <<>> THEN 0 ELSE b[1]
             s == x + y + c
         IN  <<s % BYTE>> \o add_carry(IF a = <<>> THEN <<>> ELSE Tail(a),
                                       IF b = <<>> THEN <<>> ELSE Tail(b),
                                       s \div BYTE)

\* a + b
i64_add(a, b) == add_carry(a, b, 0)

\* a * d + c for one byte d > 0, c the carry
RECURSIVE mul_byte(_, _, _)
mul_byte(a, d, c) ==
    IF a = <<>>
    THEN IF c = 0 THEN <<>> ELSE <<c>>
    ELSE LET s == a[1] * d + c
         IN  <<s % BYTE>> \o mul_byte(Tail(a), d, s \div BYTE)

\* a * b, one byte of b at a time
RECURSIVE i64_mul(_, _)
i64_mul(a, b) ==
    IF a = <<>> \/ b = <<>>
    THEN <<>>
    ELSE LET low == IF b[1] = 0 THEN <<>> ELSE mul_byte(a, b[1], 0)
             rest == i64_mul(a, Tail(b))
         IN  i64_add(low, IF rest = <<>> THEN <<>> ELSE <<0>> \o rest)

\* a < b
RECURSIVE lt_from(_, _, _)
lt_from(a, b, i) ==
    IF i = 0 THEN FALSE
    ELSE IF a[i] # b[i] THEN a[i] < b[i]
    ELSE lt_from(a, b, i - 1)

i64_lt(a, b) ==
    IF Len(a) # Len(b) THEN Len(a) < Len(b) ELSE lt_from(a, b, Len(a))

\* the i64 of a decimal literal, digit by digit
RECURSIVE Dec(_)
Dec(d) ==
    IF d = <<>> THEN <<>>
    ELSE add_carry(IF Dec(SubSeq(d, 1, Len(d) - 1)) = <<>> THEN <<>>
                   ELSE mul_byte(Dec(SubSeq(d, 1, Len(d) - 1)), 10, 0),
                   <<>>, d[Len(d)])

\* i64::MAX, 2^63 - 1
I64_MAX == <<255, 255, 255, 255, 255, 255, 255, 127>>

\* `w as i32 as i64` of a word that is not negative and whose bit 31 is
\* clear: its low four bytes
RECURSIVE strip(_)
strip(w) ==
    IF w = <<>> THEN <<>>
    ELSE IF w[Len(w)] = 0 THEN strip(SubSeq(w, 1, Len(w) - 1))
    ELSE w

low32(w) == strip(SubSeq(w, 1, IF Len(w) < 4 THEN Len(w) ELSE 4))

\* `w as usize`: a word of 2^31 or more is an address far beyond MAX_MEMORY
wide_as_usize(w) == IF i64_is_small(w) THEN i64_small(w) ELSE USIZE_TOP

\* `(w as u32) % 100000`, which holds the opcode and the three mode digits:
\* the low four bytes, 256^2 = 65536 and 256^3 = 167 * 100000 + 77216
wide_u32_mod100000(w) ==
    LET byte(i) == IF i <= Len(w) THEN w[i] ELSE 0
    IN  (byte(1) + 256 * byte(2) + 65536 * byte(3) + 77216 * byte(4)) % 100000

\* fn load
wide_load(address) ==
    IF address < VecLen(tape) THEN Cell(tape, address) ELSE i64_from(0)

\* fn store, below the memory limit
wide_store(address, value) ==
    IF address >= VecLen(tape)
    THEN set(resize(tape, address + 1, i64_from(0)), address, value)
    ELSE set(tape, address, value)

\* fn load_operand, with the relative base at 0
wide_load_operand(offset, mode) ==
    CASE mode = "Position" -> wide_load(wide_as_usize(wide_load(offset)))
      [] mode = "Immediate" -> wide_load(offset)
      [] mode = "Relative" -> wide_load(wide_as_usize(wide_load(offset)))

\* fn output_pos, with the relative base at 0
wide_output_pos(offset, mode) ==
    CASE mode = "Position" -> wide_as_usize(wide_load(offset))
      [] mode = "Immediate" -> offset
      [] mode = "Relative" -> wide_as_usize(wide_load(offset))

\* fn operation with a product computed in 32 bits
wide_operation_i32(a, b, op) ==
    CASE op = ADD -> i64_add(a, b)
      [] op = MULTIPLY -> low32(i64_mul(a, b))
      [] op = LESS_THAN -> i64_from(IF i64_lt(a, b) THEN 1 ELSE 0)
      [] op = EQUALS -> i64_from(IF a = b THEN 1 ELSE 0)

\* fn operation
wide_operation(a, b, op) ==
    CASE op = ADD -> i64_add(a, b)
      [] op = MULTIPLY -> i64_mul(a, b)
      [] op = LESS_THAN -> i64_from(IF i64_lt(a, b) THEN 1 ELSE 0)
      [] op = EQUALS -> i64_from(IF a = b THEN 1 ELSE 0)

\* the head of execute_instruction
wide_instruction == wide_u32_mod100000(wide_load(ip))

wide_opcode == wide_instruction % 100

wide_modes(i) ==
    ParameterModeFrom(CASE i = 0 -> (wide_instruction \div 100) % 10
                        [] i = 1 -> (wide_instruction \div 1000) % 10
                        [] i = 2 -> (wide_instruction \div 10000) % 10)

wide_modes_valid == \A i \in 0..2 : wide_modes(i) # "Invalid"

\* factors of up to 31 bits, among them the factor of the test: every
\* product of two of them is below 2^63
WideFactors == {i64_from(0), i64_from(3), i64_from(65536),
                Dec(<<3, 4, 9, 1, 5, 1, 9, 2>>), <<0, 0, 0, 64>>}

\* terms of up to 62 bits (2^32 + 1, 2^50, 2^61): every sum of two of them
\* is below 2^63
WideTerms == {i64_from(0), i64_from(3), <<1, 0, 0, 0, 1>>,
              Dec(<<1, 1, 2, 5, 8, 9, 9, 9, 0, 6, 8, 4, 2, 6, 2, 4>>),
              <<0, 0, 0, 0, 0, 0, 0, 32>>}

\* instruction words of 32 bits and more: 2^32 - 67197, which ends in 00099,
\* 2^32 + 99, and 348 * 2^32 + 1101, which ends in 20109
WideInstructions == {Dec(<<4, 2, 9, 4, 9, 0, 0, 0, 9, 9>>),
                     Dec(<<4, 2, 9, 4, 9, 6, 7, 3, 9, 5>>),
                     Dec(<<1, 4, 9, 4, 6, 4, 8, 6, 2, 0, 1, 0, 9>>)}

\* a program: small words, then the words ws, then small words
WideProgram(head, ws, rest) ==
    Vec([k \in 1..Len(head) |-> i64_from(head[k])] \o ws
        \o [k \in 1..Len(rest) |-> i64_from(rest[k])])

\* the two programs of the tests whose values exceed 32 bits, the same with
\* other values and the other operations, in Immediate and in Position
\* mode, programs that do not decode, and programs whose first instruction
\* is a word beyond 32 bits
WidePrograms ==
    {WideProgram(<<104>>, <<v>>, <<99>>) :
        v \in WideFactors \cup WideTerms \cup {I64_MAX}}
    \cup {WideProgram(<<1102>>, <<a, b>>, <<7, 4, 7, 99, 0>>) :
            a \in WideFactors, b \in WideFactors}
    \cup {WideProgram(<<2, 7, 8, 9, 4, 9, 99>>, <<a, b>>, <<>>) :
            a \in WideFactors, b \in WideFactors}
    \cup {WideProgram(<<w>>, <<a, b>>, <<7, 4, 7, 99, 0>>) :
            w \in {1101, 1107, 1108}, a \in WideTerms, b \in WideTerms}
    \cup {WideProgram(<<104>>, <<v>>, <<98>>) : v \in WideTerms}
    \cup {WideProgram(<<>>, <<v>>, <<0, 0, 0, 99>>) :
            v \in WideTerms \ {i64_from(3)}}
    \cup {WideProgram(<<>>, <<v>>, <<>>) : v \in WideInstructions}

\* Computer::new(0, &program, VecDeque::new(), Vec::new())
InitWide ==
    /\ program \in WidePrograms
    /\ tape = program
    /\ input = <<>>
    /\ in_kind = "VecDeque"
    /\ output = <<>>
    /\ out_kind = "Vec"
    /\ rx_alive = TRUE
    /\ last_output = i64_from(0)
    /\ ip = 0
    /\ run_state = NotYetStarted
    /\ relative_base = 0
    /\ pc = "idle"
    /\ ret = <<"none">>
    /\ written = <<>>
    /\ enqueued = <<>>
    /\ taken = <<>>
    /\ ev = Event("new", 0, NoAddr, 0)
    /\ ChainOff

\* a panic: the thread unwinds, the engine is left as it is
WidePanics ==
    /\ pc' = "panicked"
    /\ ev' = Event("panic", wide_opcode, NoAddr, 0)
    /\ UNCHANGED <<chain, program, in_kind, enqueued, taken, engine, out_kind,
                   rx_alive, ret, written>>

\* ADD | MULTIPLY | LESS_THAN | EQUALS
WideArith ==
    /\ pc = "running"
    /\ wide_modes_valid
    /\ wide_opcode \in {ADD, MULTIPLY, LESS_THAN, EQUALS}
    /\ LET a == wide_load_operand(ip + 1, wide_modes(0))
           b == wide_load_operand(ip + 2, wide_modes(1))
           v == wide_operation(a, b, wide_opcode)
           pos == wide_output_pos(ip + 3, wide_modes(2))
       IN  IF store_panics(pos)
           THEN WidePanics
           ELSE /\ tape' = wide_store(pos, v)
                /\ ip' = ContinueRelative(4)
                /\ ev' = Event("exec", wide_opcode, pos, v)
                /\ UNCHANGED <<chain, program, in_kind, enqueued, taken,
                               input, output, out_kind, rx_alive,
                               last_output, run_state, relative_base, pc, ret,
                               written>>

\* OUTPUT
WideOutput ==
    /\ pc = "running"
    /\ wide_modes_valid
    /\ wide_opcode = OUTPUT
    /\ LET output_value == wide_load_operand(ip + 1, wide_modes(0))
       IN  /\ output' = write(output_value)
           /\ last_output' = output_value
           /\ written' = Append(written, output_value)
           /\ ip' = ContinueRelative(2)
           /\ ev' = Event("exec", wide_opcode, NoAddr, output_value)
    /\ UNCHANGED <<chain, program, in_kind, enqueued, taken,
                   tape, input, out_kind, rx_alive, run_state,
                   relative_base, pc, ret>>

\* HALT
WideHalt ==
    /\ pc = "running"
    /\ wide_modes_valid
    /\ wide_opcode = HALT
    /\ run_state' = Stopped(last_output)
    /\ ret' = Stopped(last_output)
    /\ pc' = "idle"
    /\ ev' = Event("exec", wide_opcode, NoAddr, 0)
    /\ UNCHANGED <<chain, program, in_kind, enqueued, taken,
                   tape, input, output, out_kind, rx_alive, last_output,
                   ip, relative_base, written>>

\* "Invalid parameter mode" and "Invalid opcode"
WideInvalid ==
    /\ pc = "running"
    /\ ~wide_modes_valid \/ wide_opcode \notin Opcodes
    /\ WidePanics

\* the programs of this part hold no INPUT, no jump and no
\* RELATIVE_BASE_OFFSET
NextWide ==
    \/ run_program
    \/ resume
    \/ WideArith
    \/ WideOutput
    \/ WideHalt
    \/ WideInvalid

SpecWide == InitWide /\ [][NextWide]_vars

----------------------------------------------------------------------------
(* The carriers on their own: a caller that fills, reads and writes them *)

InitCarrier ==
    /\ program = <<>>
    /\ tape = program
    /\ input \in InitQueues
    /\ in_kind \in {"VecDeque", "Option"}
    /\ output = <<>>
    /\ out_kind \in {"Vec", "VecDeque", "Option"}
    /\ rx_alive = TRUE
    /\ last_output = 0
    /\ ip = 0
    /\ run_state = NotYetStarted
    /\ relative_base = 0
    /\ pc = "idle"
    /\ ret = <<"none">>
    /\ written = <<>>
    /\ enqueued = input
    /\ taken = <<>>
    /\ ev = Event("new", 0, NoAddr, 0)
    /\ ChainOff

\* *get_input() = Some(x): the caller refills the slot
Refill(x) ==
    /\ pc = "idle"
    /\ in_kind = "Option"
    /\ Len(enqueued) < MaxSupplied
    /\ input' = <<x>>
    /\ enqueued' = Append(enqueued, x)
    /\ ev' = Event("supply", 0, NoAddr, x)
    /\ UNCHANGED <<chain, program, in_kind, taken, tape, output, out_kind, rx_alive,
                   last_output, ip, run_state, relative_base, pc, ret, written>>

\* input.try_read(); ev.val is the Option it answers
CarrierTryRead ==
    /\ input' = try_read_rest
    /\ taken' = taken \o try_read
    /\ ev' = Event("try_read", 0, NoAddr, try_read)
    /\ UNCHANGED <<chain, program, in_kind, enqueued, tape, output, out_kind, rx_alive,
                   last_output, ip, run_state, relative_base, pc, ret, written>>

\* input.read(); ev.val is the Result it answers
CarrierRead ==
    /\ input' = read_rest
    /\ taken' = IF read[1] = "Ok" THEN Append(taken, read[2]) ELSE taken
    /\ ev' = Event("read", 0, NoAddr, read)
    /\ UNCHANGED <<chain, program, in_kind, enqueued, tape, output, out_kind, rx_alive,
                   last_output, ip, run_state, relative_base, pc, ret, written>>

\* output.write(x)
CarrierWrite(x) ==
    /\ Len(written) < MaxWritten
    /\ output' = write(x)
    /\ written' = Append(written, x)
    /\ ev' = Event("write", 0, NoAddr, x)
    /\ UNCHANGED <<chain, program, in_kind, enqueued, taken, tape, input, out_kind,
                   rx_alive, last_output, ip, run_state, relative_base, pc, ret>>

NextCarrier ==
    \/ \E x \in InputValues : SupplyInput(x)
    \/ \E x \in InputValues : Refill(x)
    \/ CarrierTryRead
    \/ CarrierRead
    \/ \E x \in InputValues : CarrierWrite(x)

SpecCarrier == InitCarrier /\ [][NextCarrier]_vars

----------------------------------------------------------------------------
(* Day 7: the channels *)

\* the permutations of the phase settings the ring is run with
PhasePermutations == {<<5, 6, 7, 8, 9>>, <<9, 5, 6, 7, 8>>, <<9, 7, 8, 5, 6>>}

\* Vec::remove(index): the element removed, and the Vec that is left
removed(v, index) == v[index + 1]

remove(v, index) == SubSeq(v, 1, index) \o SubSeq(v, index + 2, Len(v))

\* the Sender of channel c exists: the main thread holds it in txs, or the
\* engine it was moved into has not finished (a thread that returns or
\* panics drops its Computer, and with it both ends it owns)
SenderAlive(c) ==
    \/ \E k \in 1..Len(txs) : txs[k] = c
    \/ \E i \in Amps : amp_tx[i] = c /\ amp_pc[i] = "running"

\* the Receiver of channel c exists
ReceiverAlive(c) ==
    \/ \E k \in 1..Len(rxs) : rxs[k] = c
    \/ \E i \in Amps : amp_rx[i] = c /\ amp_pc[i] = "running"

\* recv that yields the value sent last
recv_newest(c) ==
    IF chan[c] # <<>> THEN <<"Ok", chan[c][Len(chan[c])]>>
    ELSE IF SenderAlive(c) THEN <<"Blocked">>
    ELSE <<"Err">>

\* recv that does not wait: Err on an empty channel
recv_fails_when_empty(c) ==
    IF chan[c] # <<>> THEN <<"Ok", Head(chan[c])>> ELSE <<"Err">>

\* impl Input for Receiver: read is Receiver::recv, which yields the value
\* sent first, blocks on an empty channel while its Sender exists, and
\* yields Err once the Sender is gone
recv(c) ==
    IF chan[c] # <<>> THEN <<"Ok", Head(chan[c])>>
    ELSE IF SenderAlive(c) THEN <<"Blocked">>
    ELSE <<"Err">>

\* the channels after recv on c has yielded Ok
received(c) == [chan EXCEPT ![c] = Tail(chan[c])]

\* impl Output for Sender: write is Sender::send, which queues the value, or
\* yields Err (and the value is lost) once the Receiver is gone
send(c, t) ==
    IF ReceiverAlive(c) THEN [chan EXCEPT ![c] = Append(chan[c], t)] ELSE chan

----------------------------------------------------------------------------
(* Day 7: Computer, an engine with its own decoding and unchecked indexing *)

\* program.to_vec() for the tape of day 7, which never grows: the cells in a
\* plain sequence, cell a at index a + 1
RECURSIVE to_vec(_)
to_vec(p) ==
    IF p = <<>> THEN <<>>
    ELSE [k \in 1..p[1][2] |-> p[1][1]] \o to_vec(Tail(p))

\* self.tape[address] does not panic
d7_in_tape(i, address) == address < Len(amp_tape[i])

\* self.tape[address]
d7_tape(i, address) == amp_tape[i][address + 1]

\* self.tape[self.ip] as u32, before the cast
d7_instruction(i) == d7_tape(i, amp_ip[i])

\* instruction % 100
d7_opcode(i) == u32_mod100(d7_instruction(i))

\* (instruction / 100) % 10 and (instruction / 1000) % 10, for k = 0, 1
d7_mode_digit(i, k) ==
    CASE k = 0 -> u32_div100(d7_instruction(i)) % 10
      [] k = 1 -> (u32_div100(d7_instruction(i)) \div 10) % 10

\* impl From<u32> for ParameterMode of day 7; "Invalid" is the panic arm
d7_ParameterModeFrom(value) ==
    CASE value = 0 -> "Position"
      [] value = 1 -> "Immediate"
      [] OTHER -> "Invalid"

d7_modes(i, k) == d7_ParameterModeFrom(d7_mode_digit(i, k))

d7_Opcodes == {ADD, MULTIPLY, INPUT, OUTPUT, JUMP_IF_TRUE, JUMP_IF_FALSE,
               LESS_THAN, EQUALS, HALT}

\* the fetch and the decoding at the head of execute_instruction do not panic
d7_decodes(i) ==
    /\ d7_in_tape(i, amp_ip[i])
    /\ d7_modes(i, 0) # "Invalid"
    /\ d7_modes(i, 1) # "Invalid"

\* fn load_operand does not panic on an index
d7_load_operand_ok(i, offset, mode) ==
    /\ d7_in_tape(i, offset)
    /\ mode = "Position" => d7_in_tape(i, AsUsize(d7_tape(i, offset)))

\* fn load_operand(&self, offset: usize, mode: ParameterMode) -> i32
d7_load_operand(i, offset, mode) ==
    CASE mode = "Position" -> d7_tape(i, AsUsize(d7_tape(i, offset)))
      [] mode = "Immediate" -> d7_tape(i, offset)

\* let output_pos = self.tape[offset] as usize; self.tape[output_pos] = ..
\* does not panic on an index
d7_store_ok(i, offset) ==
    /\ d7_in_tape(i, offset)
    /\ d7_in_tape(i, AsUsize(d7_tape(i, offset)))

\* the tape after self.tape[self.tape[offset] as usize] = value
d7_store(i, offset, value) ==
    [amp_tape EXCEPT ![i][AsUsize(d7_tape(i, offset)) + 1] = value]

\* fn should_jump(condition: i32, opcode: u32) -> bool
d7_should_jump(condition, op) ==
    CASE op = JUMP_IF_TRUE -> condition # 0
      [] op = JUMP_IF_FALSE -> condition = 0

\* fn operation(a: i32, b: i32, opcode: u32) -> i32
d7_operation(a, b, op) ==
    CASE op = ADD -> a + b
      [] op = MULTIPLY -> a * b
      [] op = LESS_THAN -> IF a < b THEN 1 ELSE 0
      [] op = EQUALS -> IF a = b THEN 1 ELSE 0


----------------------------------------------------------------------------
(* Day 7: run_amplifier_chain_with_feedback *)

\* the programs the ring is run with: the first feedback example of the
\* tests; "read, write, read, write"; "write 1, write 2, read three values,
\* write the last"; "read the phase, halt on phase 5, else read and write";
\* "write 1" followed by a word that is no instruction; "read three
\* values", which is more than the ring supplies; and "read the phase, read
\* x, write 2 * x + phase"
ChainPrograms == {
    <<3, 26, 1001, 26, 0 - 4, 26, 3, 27, 1002, 27, 2, 27, 1, 27, 26, 27, 4, 27,
      1001, 28, 0 - 1, 28, 1005, 28, 6, 99, 0, 0, 5>>,
    <<3, 9, 4, 9, 3, 9, 4, 9, 99, 0>>,
    <<104, 1, 104, 2, 3, 13, 3, 13, 3, 13, 4, 13, 99, 0>>,
    <<3, 15, 1008, 15, 5, 16, 1005, 16, 14, 3, 15, 4, 15, 99, 99, 0, 0>>,
    <<104, 1, 77>>,
    <<3, 7, 3, 7, 3, 7, 99, 0>>,
    <<3, 15, 3, 16, 1002, 16, 2, 16, 1, 15, 16, 16, 4, 16, 99, 0, 0>> }

\* those of them that read the phase and then, a fixed number of times, read
\* one value and write one value, and halt: five rounds, and one round
AmplifierPrograms == {
    <<3, 26, 1001, 26, 0 - 4, 26, 3, 27, 1002, 27, 2, 27, 1, 27, 26, 27, 4, 27,
      1001, 28, 0 - 1, 28, 1005, 28, 6, 99, 0, 0, 5>>,
    <<3, 15, 3, 16, 1002, 16, 2, 16, 1, 15, 16, 16, 4, 16, 99, 0, 0>> }

\* the single engine of lib.rs is not run
SingleOff ==
    /\ tape = <<>>
    /\ input = <<>>
    /\ in_kind = "VecDeque"
    /\ output = <<>>
    /\ out_kind = "Vec"
    /\ rx_alive = TRUE
    /\ last_output = 0
    /\ ip = 0
    /\ run_state = NotYetStarted
    /\ relative_base = 0
    /\ pc = "idle"
    /\ ret = <<"none">>
    /\ written = <<>>
    /\ enqueued = <<>>
    /\ taken = <<>>
    /\ ev = Event("new", 0, NoAddr, 0)

\* the call run_amplifier_chain_with_feedback(program, phase_settings, 0)
InitChain ==
    /\ program \in {Vec(p) : p \in ChainPrograms}
    /\ SingleOff
    /\ SearchOff
    /\ RobotOff
    /\ phase_settings \in PhasePermutations
    /\ initial_input = 0
    /\ main_pc = <<"seed", 0>>
    /\ txs = <<>>
    /\ rxs = <<>>
    /\ chan = [c \in Amps |-> <<>>]
    /\ seeded = [c \in Amps |-> <<>>]
    /\ result = 0
    /\ amp_tx = [i \in Amps |-> NoAddr]
    /\ amp_rx = [i \in Amps |-> NoAddr]
    /\ amp_pc = [i \in Amps |-> "unspawned"]
    /\ amp_tape = [i \in Amps |-> <<>>]
    /\ amp_ip = [i \in Amps |-> 0]
    /\ amp_last_output = [i \in Amps |-> 0]
    /\ amp_read = [i \in Amps |-> <<>>]
    /\ amp_written = [i \in Amps |-> <<>>]

\* what the engine threads leave alone
ring_setup == <<program, single, robot, search, phase_settings, initial_input,
                main_pc, txs, rxs, seeded, result, amp_tx, amp_rx>>

\* what the main thread leaves alone while it sets the channels up
ring_engines == <<amp_tx, amp_rx, amp_pc, amp_tape, amp_ip, amp_last_output,
                  amp_read, amp_written>>

\* the first loop, iteration i: let (tx, rx) = channel();
\* tx.send(phase_settings[(i + 1) % 5] as i32).unwrap(); txs.push(tx); rxs.push(rx)
Seed(i) ==
    /\ main_pc = <<"seed", i>>
    /\ LET t == phase_settings[((i + 1) % AMPLIFIERS) + 1]
       IN  /\ chan' = [chan EXCEPT ![i] = Append(chan[i], t)]
           /\ seeded' = [seeded EXCEPT ![i] = Append(seeded[i], t)]
    /\ txs' = Append(txs, i)
    /\ rxs' = Append(rxs, i)
    /\ main_pc' = IF i + 1 < AMPLIFIERS THEN <<"seed", i + 1>> ELSE <<"send">>
    /\ UNCHANGED <<program, single, robot, search, phase_settings, initial_input, result,
                   ring_engines>>

\* txs[4].send(initial_input) that puts the value ahead of what the channel
\* holds
SendInitial_ahead ==
    /\ main_pc = <<"send">>
    /\ LET c == txs[4 + 1]
       IN  /\ chan' = [chan EXCEPT ![c] = <<initial_input>> \o chan[c]]
           /\ seeded' = [seeded EXCEPT ![c] = <<initial_input>> \o seeded[c]]
    /\ main_pc' = <<"spawn", 0>>
    /\ UNCHANGED <<program, single, robot, search, phase_settings, initial_input, txs, rxs,
                   result, ring_engines>>

\* txs[4].send(initial_input).unwrap()
SendInitial ==
    /\ main_pc = <<"send">>
    /\ LET c == txs[4 + 1]
       IN  /\ chan' = [chan EXCEPT ![c] = Append(chan[c], initial_input)]
           /\ seeded' = [seeded EXCEPT ![c] = Append(seeded[c], initial_input)]
    /\ main_pc' = <<"spawn", 0>>
    /\ UNCHANGED <<program, single, robot, search, phase_settings, initial_input, txs, rxs,
                   result, ring_engines>>

\* the second loop with rxs.remove(0) in every iteration
Spawn_first(i) ==
    /\ main_pc = <<"spawn", i>>
    /\ amp_tx' = [amp_tx EXCEPT ![i] = removed(txs, 0)]
    /\ amp_rx' = [amp_rx EXCEPT ![i] = removed(rxs, 0)]
    /\ txs' = remove(txs, 0)
    /\ rxs' = remove(rxs, 0)
    /\ amp_pc' = [amp_pc EXCEPT ![i] = "running"]
    /\ amp_tape' = [amp_tape EXCEPT ![i] = to_vec(program)]
    /\ main_pc' = IF i + 1 < AMPLIFIERS THEN <<"spawn", i + 1>> ELSE <<"join", 0>>
    /\ UNCHANGED <<program, single, robot, search, phase_settings, initial_input, chan, seeded,
                   result, amp_ip, amp_last_output, amp_read, amp_written>>

\* the second loop, iteration i: the two remove calls and s.spawn; the
\* thread starts in run_amplifier_program with a Computer::new of its own
Spawn(i) ==
    /\ main_pc = <<"spawn", i>>
    /\ LET index == IF i < 4 THEN 1 ELSE 0
       IN  /\ amp_tx' = [amp_tx EXCEPT ![i] = removed(txs, 0)]
           /\ amp_rx' = [amp_rx EXCEPT ![i] = removed(rxs, index)]
           /\ txs' = remove(txs, 0)
           /\ rxs' = remove(rxs, index)
    /\ amp_pc' = [amp_pc EXCEPT ![i] = "running"]
    /\ amp_tape' = [amp_tape EXCEPT ![i] = to_vec(program)]
    /\ main_pc' = IF i + 1 < AMPLIFIERS THEN <<"spawn", i + 1>> ELSE <<"join", 0>>
    /\ UNCHANGED <<program, single, robot, search, phase_settings, initial_input, chan, seeded,
                   result, amp_ip, amp_last_output, amp_read, amp_written>>

\* the third loop, iteration i: result = handle.join().unwrap()
JoinHandle(i) ==
    /\ main_pc = <<"join", i>>
    /\ amp_pc[i] \in {"done", "panicked"}
    /\ IF amp_pc[i] = "done"
       THEN /\ result' = amp_last_output[i]
            /\ main_pc' = IF i + 1 < AMPLIFIERS THEN <<"join", i + 1>>
                          ELSE <<"returned">>
       ELSE /\ result' = result
            /\ main_pc' = <<"panicked">>
    /\ UNCHANGED <<program, single, robot, search, phase_settings, initial_input, txs, rxs,
                   chan, seeded, ring_engines>>

\* a panic in the thread of engine i
d7_panics(i) == amp_pc' = [amp_pc EXCEPT ![i] = "panicked"]

\* ADD | MULTIPLY | LESS_THAN | EQUALS
D7Arith(i) ==
    /\ amp_pc[i] = "running"
    /\ d7_decodes(i)
    /\ d7_opcode(i) \in {ADD, MULTIPLY, LESS_THAN, EQUALS}
    /\ LET at == amp_ip[i]
       IN  IF /\ d7_load_operand_ok(i, at + 1, d7_modes(i, 0))
              /\ d7_load_operand_ok(i, at + 2, d7_modes(i, 1))
              /\ d7_store_ok(i, at + 3)
           THEN /\ amp_tape' = d7_store(i, at + 3,
                       d7_operation(d7_load_operand(i, at + 1, d7_modes(i, 0)),
                                    d7_load_operand(i, at + 2, d7_modes(i, 1)),
                                    d7_opcode(i)))
                /\ amp_ip' = [amp_ip EXCEPT ![i] = at + 4]
                /\ UNCHANGED amp_pc
           ELSE /\ d7_panics(i)
                /\ UNCHANGED <<amp_tape, amp_ip>>
    /\ UNCHANGED <<ring_setup, chan, amp_last_output, amp_read, amp_written>>

\* INPUT: self.input.read() blocks while the channel is empty and its Sender
\* exists, and the instruction panics on Err
D7Input(i) ==
    /\ amp_pc[i] = "running"
    /\ d7_decodes(i)
    /\ d7_opcode(i) = INPUT
    /\ LET at == amp_ip[i]
           input_value == recv(amp_rx[i])
       IN  /\ input_value # <<"Blocked">>
           /\ IF input_value = <<"Err">>
              THEN /\ d7_panics(i)
                   /\ UNCHANGED <<chan, amp_read, amp_tape, amp_ip>>
              ELSE /\ chan' = received(amp_rx[i])
                   /\ amp_read' = [amp_read EXCEPT
                                      ![i] = Append(amp_read[i], input_value[2])]
                   /\ IF d7_store_ok(i, at + 1)
                      THEN /\ amp_tape' = d7_store(i, at + 1, input_value[2])
                           /\ amp_ip' = [amp_ip EXCEPT ![i] = at + 2]
                           /\ UNCHANGED amp_pc
                      ELSE /\ d7_panics(i)
                           /\ UNCHANGED <<amp_tape, amp_ip>>
    /\ UNCHANGED <<ring_setup, amp_last_output, amp_written>>

\* OUTPUT that panics when write yields Err
D7Output_unwraps(i) ==
    /\ amp_pc[i] = "running"
    /\ d7_decodes(i)
    /\ d7_opcode(i) = OUTPUT
    /\ LET at == amp_ip[i]
       IN  IF /\ d7_load_operand_ok(i, at + 1, d7_modes(i, 0))
              /\ ReceiverAlive(amp_tx[i])
           THEN LET output_value == d7_load_operand(i, at + 1, d7_modes(i, 0))
                IN  /\ chan' = send(amp_tx[i], output_value)
                    /\ amp_written' = [amp_written EXCEPT
                                          ![i] = Append(amp_written[i], output_value)]
                    /\ amp_last_output' = [amp_last_output EXCEPT
                                              ![i] = output_value]
                    /\ amp_ip' = [amp_ip EXCEPT ![i] = at + 2]
                    /\ UNCHANGED amp_pc
           ELSE /\ d7_panics(i)
                /\ UNCHANGED <<chan, amp_written, amp_last_output, amp_ip>>
    /\ UNCHANGED <<ring_setup, amp_tape, amp_read>>

\* OUTPUT: the result of write is dropped
D7Output(i) ==
    /\ amp_pc[i] = "running"
    /\ d7_decodes(i)
    /\ d7_opcode(i) = OUTPUT
    /\ LET at == amp_ip[i]
       IN  IF d7_load_operand_ok(i, at + 1, d7_modes(i, 0))
           THEN LET output_value == d7_load_operand(i, at + 1, d7_modes(i, 0))
                IN  /\ chan' = send(amp_tx[i], output_value)
                    /\ amp_written' = [amp_written EXCEPT
                                          ![i] = Append(amp_written[i], output_value)]
                    /\ amp_last_output' = [amp_last_output EXCEPT
                                              ![i] = output_value]
                    /\ amp_ip' = [amp_ip EXCEPT ![i] = at + 2]
                    /\ UNCHANGED amp_pc
           ELSE /\ d7_panics(i)
                /\ UNCHANGED <<chan, amp_written, amp_last_output, amp_ip>>
    /\ UNCHANGED <<ring_setup, amp_tape, amp_read>>

\* JUMP_IF_TRUE | JUMP_IF_FALSE
D7Jump(i) ==
    /\ amp_pc[i] = "running"
    /\ d7_decodes(i)
    /\ d7_opcode(i) \in {JUMP_IF_TRUE, JUMP_IF_FALSE}
    /\ LET at == amp_ip[i]
       IN  IF ~d7_load_operand_ok(i, at + 1, d7_modes(i, 0))
           THEN d7_panics(i) /\ UNCHANGED amp_ip
           ELSE IF ~d7_should_jump(d7_load_operand(i, at + 1, d7_modes(i, 0)),
                                   d7_opcode(i))
           THEN /\ amp_ip' = [amp_ip EXCEPT ![i] = at + 3]
                /\ UNCHANGED amp_pc
           ELSE IF ~d7_load_operand_ok(i, at + 2, d7_modes(i, 1))
           THEN d7_panics(i) /\ UNCHANGED amp_ip
           ELSE /\ amp_ip' = [amp_ip EXCEPT
                                 ![i] = AsUsize(d7_load_operand(i, at + 2,
                                                                d7_modes(i, 1)))]
                /\ UNCHANGED amp_pc
    /\ UNCHANGED <<ring_setup, chan, amp_tape, amp_last_output, amp_read,
                   amp_written>>

\* HALT: run_program returns self.last_output and the thread ends
D7Halt(i) ==
    /\ amp_pc[i] = "running"
    /\ d7_decodes(i)
    /\ d7_opcode(i) = HALT
    /\ amp_pc' = [amp_pc EXCEPT ![i] = "done"]
    /\ UNCHANGED <<ring_setup, chan, amp_tape, amp_ip, amp_last_output, amp_read,
                   amp_written>>

\* the fetch beyond the tape, "Invalid parameter mode" and "Invalid opcode"
D7Invalid(i) ==
    /\ amp_pc[i] = "running"
    /\ ~d7_decodes(i) \/ d7_opcode(i) \notin d7_Opcodes
    /\ d7_panics(i)
    /\ UNCHANGED <<ring_setup, chan, amp_tape, amp_ip, amp_last_output, amp_read,
                   amp_written>>

\* one instruction of the engine of thread i
d7_execute_instruction(i) ==
    \/ D7Arith(i)
    \/ D7Input(i)
    \/ D7Output(i)
    \/ D7Jump(i)
    \/ D7Halt(i)
    \/ D7Invalid(i)

NextChain ==
    \/ \E i \in Amps : Seed(i)
    \/ SendInitial
    \/ \E i \in Amps : Spawn(i)
    \/ \E i \in Amps : JoinHandle(i)
    \/ \E i \in Amps : d7_execute_instruction(i)

SpecChain == InitChain /\ [][NextChain]_vars

\* the ring on a machine that runs its threads: while some thread can take a
\* step, some thread eventually takes one
SpecChainFair == InitChain /\ [][NextChain]_vars /\ WF_vars(NextChain)

\* the ring as the first loop would leave it without its send, and without
\* the send of the initial input: five channels, none of which holds a value
InitUnseeded ==
    /\ program \in {Vec(p) : p \in ChainPrograms}
    /\ SingleOff
    /\ SearchOff
    /\ RobotOff
    /\ phase_settings \in PhasePermutations
    /\ initial_input = 0
    /\ main_pc = <<"spawn", 0>>
    /\ txs = <<0, 1, 2, 3, 4>>
    /\ rxs = <<0, 1, 2, 3, 4>>
    /\ chan = [c \in Amps |-> <<>>]
    /\ seeded = [c \in Amps |-> <<>>]
    /\ result = 0
    /\ amp_tx = [i \in Amps |-> NoAddr]
    /\ amp_rx = [i \in Amps |-> NoAddr]
    /\ amp_pc = [i \in Amps |-> "unspawned"]
    /\ amp_tape = [i \in Amps |-> <<>>]
    /\ amp_ip = [i \in Amps |-> 0]
    /\ amp_last_output = [i \in Amps |-> 0]
    /\ amp_read = [i \in Amps |-> <<>>]
    /\ amp_written = [i \in Amps |-> <<>>]

\* rings of channel-connected engines: the ring of
\* run_amplifier_chain_with_feedback, and the same ring with no value seeded
SpecRing == (InitChain \/ InitUnseeded) /\ [][NextChain]_vars

----------------------------------------------------------------------------
(* Day 9: Computer, the engine of lib.rs with the blocking read *)

\* src/09-sensor-boost/src/main.rs holds its own copy of the engine.  Its
\* load, store, load_operand, store_operand, should_jump, operation and
\* every arm of execute_instruction but INPUT are those of lib.rs word for
\* word, so the definitions above stand for them; it has no RunState:
\* run_program loops until Terminate and returns last_output.

\* the programs of day 9's tests (those of lib.rs), the programs that read
\* more than once, the programs at the memory limit and one INPUT in every
\* addressing mode
Day9Programs ==
    {Vec(p) : p \in TestPrograms \cup IoPrograms \cup LimitPrograms
                     \cup {q \in Family : q[1] \in {3, 103, 203}}
                     \cup {q \in RelFamily : q[3] = 203}}

\* queue![1] and queue![2] of main, queue![42] of the tests, VecDeque::new()
Day9Queues == {<<>>, <<1>>, <<2>>, <<42, 7>>}

\* Computer::new(0, &program, queue, Vec::new())
InitDay9 ==
    /\ program \in Day9Programs
    /\ tape = program
    /\ input \in Day9Queues
    /\ in_kind = "VecDeque"
    /\ output = <<>>
    /\ out_kind = "Vec"
    /\ rx_alive = TRUE
    /\ last_output = 0
    /\ ip = 0
    /\ run_state = NotYetStarted
    /\ relative_base = 0
    /\ pc = "idle"
    /\ ret = <<"none">>
    /\ written = <<>>
    /\ enqueued = input
    /\ taken = <<>>
    /\ ev = Event("new", 0, NoAddr, 0)
    /\ ChainOff

\* what run_program returns
Returned(v) == <<"Returned", v>>

\* run_program(): the loop is entered (the engine of day 9 stands alone, it
\* is no part of the ring)
d9_run_program ==
    /\ main_pc = <<"off">>
    /\ pc = "idle"
    /\ pc' = "running"
    /\ ev' = Event("resume", 0, NoAddr, 0)
    /\ UNCHANGED <<chain, program, in_kind, enqueued, taken,
                   engine, out_kind, rx_alive, ret, written>>

\* INPUT that suspends on an empty queue, as the arm of lib.rs does
D9Input_suspends == ExecInput

\* INPUT: self.input.read(), and a panic on Err
D9Input ==
    /\ pc = "running"
    /\ modes_valid
    /\ opcode = INPUT
    /\ LET input_value == read
       IN  IF input_value = <<"Err">>
           THEN \* panic!("Error receiving input: {:?}", e)
                /\ Panics
                /\ UNCHANGED <<engine, taken>>
           ELSE /\ input' = read_rest
                /\ taken' = Append(taken, input_value[2])
                /\ IF store_operand_panics(ip + 1, modes(0))
                   THEN /\ Panics
                        /\ UNCHANGED <<tape, output, last_output, ip, run_state,
                                       relative_base>>
                   ELSE /\ tape' = store_operand(ip + 1, modes(0), input_value[2])
                        /\ ip' = ContinueRelative(2)
                        /\ ev' = Event("exec", opcode, output_pos(ip + 1, modes(0)),
                                       input_value[2])
                        /\ UNCHANGED <<chain, program, in_kind, enqueued,
                                       output, out_kind, rx_alive,
                                       last_output, run_state, relative_base, pc,
                                       ret, written>>

\* HALT: NextState::Terminate => break, and run_program returns last_output
D9Halt ==
    /\ pc = "running"
    /\ modes_valid
    /\ opcode = HALT
    /\ ret' = Returned(last_output)
    /\ pc' = "idle"
    /\ ev' = Event("exec", opcode, NoAddr, 0)
    /\ UNCHANGED <<chain, program, in_kind, enqueued, taken, engine,
                   out_kind, rx_alive, written>>

d9_execute_instruction ==
    \/ ExecArith
    \/ D9Input
    \/ ExecOutput
    \/ ExecJump
    \/ ExecRelativeBase
    \/ D9Halt
    \/ ExecInvalid

NextDay9 ==
    \/ d9_run_program
    \/ d9_execute_instruction

\* the two engines that call the blocking read: the ring of day 7 and the
\* engine of day 9
SpecSync == (InitChain \/ InitDay9) /\ [][NextChain \/ NextDay9]_vars

----------------------------------------------------------------------------
(* Day 7: find_best_phase_settings and run_amplifier_chain *)

\* const PHASE_SETTINGS and const PHASE_SETTINGS_FEEDBACK
PHASE_SETTINGS == <<0, 1, 2, 3, 4>>

PHASE_SETTINGS_FEEDBACK == <<5, 6, 7, 8, 9>>

\* the field n of a Heap that has not yielded yet (!0)
HEAP_START == 0 - 1

\* permutohedron::Heap::new(&mut phase_settings): the data, the counters c,
\* one for each position but the first, and n
HeapNew(data) ==
    [data |-> data, c |-> [k \in 1..(Len(data) - 1) |-> 0], n |-> HEAP_START]

\* slice::swap(j, k)
swap(data, j, k) ==
    [data EXCEPT ![j + 1] = data[k + 1], ![k + 1] = data[j + 1]]

\* Iterator::next of the Heap: the data as it is the first time, then one
\* swap of Heap's algorithm for each item, and None when the counters are
\* used up
RECURSIVE next_permutation(_)
next_permutation(h) ==
    IF h.n = HEAP_START
    THEN [item |-> <<"Some", h.data>>, heap |-> [h EXCEPT !.n = 0]]
    ELSE IF 1 + h.n < Len(h.data)
    THEN LET nu == h.n
         IN  IF h.c[nu + 1] <= nu
             THEN LET j == IF nu % 2 = 0 THEN h.c[nu + 1] ELSE 0
                      d == swap(h.data, j, nu + 1)
                  IN  [item |-> <<"Some", d>>,
                       heap |-> [data |-> d,
                                 c |-> [h.c EXCEPT ![nu + 1] = @ + 1],
                                 n |-> 0]]
             ELSE next_permutation([h EXCEPT !.c[nu + 1] = 0, !.n = nu + 1])
    ELSE [item |-> <<"None">>, heap |-> h]

\* i32::max
i32_max(a, b) == IF a >= b THEN a ELSE b

\* tests::amplifier_example_1
AmplifierExample1 ==
    <<3, 15, 3, 16, 1002, 16, 10, 16, 1, 16, 15, 15, 4, 15, 99, 0, 0>>

\* the programs the chain without feedback is searched with: the example,
\* "write -1", and a word that is no instruction
SearchPrograms == {AmplifierExample1, <<104, 0 - 1, 99>>, <<77>>}

\* the programs the ring is searched with: "read the phase, read x, write
\* 2 * x + phase, jump to the halt", and a word that is no instruction
SearchFeedbackPrograms == {
    <<3, 18, 3, 19, 1002, 19, 2, 19, 1, 18, 19, 19, 4, 19, 1105, 1, 17, 99, 0, 0>>,
    <<77>> }

\* no ring and no engine exists
NoRing ==
    /\ main_pc = <<"off">>
    /\ txs = <<>>
    /\ rxs = <<>>
    /\ chan = [c \in Amps |-> <<>>]
    /\ seeded = [c \in Amps |-> <<>>]
    /\ result = 0
    /\ amp_tx = [i \in Amps |-> NoAddr]
    /\ amp_rx = [i \in Amps |-> NoAddr]
    /\ amp_pc = [i \in Amps |-> "unspawned"]
    /\ amp_tape = [i \in Amps |-> <<>>]
    /\ amp_ip = [i \in Amps |-> 0]
    /\ amp_last_output = [i \in Amps |-> 0]
    /\ amp_read = [i \in Amps |-> <<>>]
    /\ amp_written = [i \in Amps |-> <<>>]

\* the calls find_best_phase_settings(&program, 0, PHASE_SETTINGS, false) and
\* find_best_phase_settings(&program, 0, PHASE_SETTINGS_FEEDBACK, true), at
\* the head of the loop
InitSearch ==
    /\ SingleOff
    /\ RobotOff
    /\ feedback \in BOOLEAN
    /\ program \in {Vec(p) : p \in IF feedback THEN SearchFeedbackPrograms
                                   ELSE SearchPrograms}
    /\ initial_input = 0
    /\ permutations = HeapNew(IF feedback THEN PHASE_SETTINGS_FEEDBACK
                              ELSE PHASE_SETTINGS)
    /\ highest_thruster_value = 0
    /\ next_input = 0
    /\ find_pc = <<"next">>
    /\ thruster_inputs = {}
    /\ phase_settings = <<>>
    /\ NoRing

\* the ring and the engines as they are when no chain runs: the locals of the
\* call are gone
ring_dropped ==
    /\ main_pc' = <<"off">>
    /\ txs' = <<>>
    /\ rxs' = <<>>
    /\ chan' = [c \in Amps |-> <<>>]
    /\ seeded' = [c \in Amps |-> <<>>]
    /\ result' = 0
    /\ amp_tx' = [i \in Amps |-> NoAddr]
    /\ amp_rx' = [i \in Amps |-> NoAddr]
    /\ amp_pc' = [i \in Amps |-> "unspawned"]
    /\ amp_tape' = [i \in Amps |-> <<>>]
    /\ amp_ip' = [i \in Amps |-> 0]
    /\ amp_last_output' = [i \in Amps |-> 0]
    /\ amp_read' = [i \in Amps |-> <<>>]
    /\ amp_written' = [i \in Amps |-> <<>>]

\* highest_thruster_value = i32::max(thruster_input, highest_thruster_value)
\* at the end of the loop body, and back to the head of the loop
Highest(thruster_input) ==
    /\ highest_thruster_value' = i32_max(thruster_input, highest_thruster_value)
    /\ thruster_inputs' = thruster_inputs \cup {<<phase_settings, thruster_input>>}
    /\ find_pc' = <<"next">>

\* for phase_setting in permutations: the next item, and the call of the
\* chain that feedback selects; highest_thruster_value is returned on None
PermutationsNext ==
    /\ find_pc = <<"next">>
    /\ LET nx == next_permutation(permutations)
       IN  /\ permutations' = nx.heap
           /\ IF nx.item = <<"None">>
              THEN /\ find_pc' = <<"returned">>
                   /\ UNCHANGED <<phase_settings, main_pc, next_input>>
              ELSE /\ phase_settings' = nx.item[2]
                   /\ IF feedback
                      THEN /\ find_pc' = <<"feedback">>
                           /\ main_pc' = <<"seed", 0>>
                           /\ UNCHANGED next_input
                      ELSE /\ find_pc' = <<"chain", 0>>
                           /\ next_input' = initial_input
                           /\ UNCHANGED main_pc
    /\ UNCHANGED <<program, single, robot, feedback, highest_thruster_value,
                   thruster_inputs, initial_input, txs, rxs, chan, seeded,
                   result, ring_engines>>

\* run_amplifier_chain_with_feedback has returned result
FeedbackReturns ==
    /\ find_pc = <<"feedback">>
    /\ main_pc = <<"returned">>
    /\ Highest(result)
    /\ ring_dropped
    /\ UNCHANGED <<program, single, robot, feedback, permutations, next_input,
                   phase_settings, initial_input>>

\* a panic in the ring, which the scope hands on once its threads have ended
FeedbackPanics ==
    /\ find_pc = <<"feedback">>
    /\ main_pc = <<"panicked">>
    /\ \A i \in Amps : amp_pc[i] # "running"
    /\ find_pc' = <<"panicked">>
    /\ UNCHANGED <<program, single, robot, feedback, permutations,
                   highest_thruster_value, next_input, thruster_inputs,
                   phase_settings, initial_input, main_pc, txs, rxs, chan,
                   seeded, result, ring_engines>>

\* what the engines of run_amplifier_chain leave alone
chain_setup == <<program, single, robot, search, phase_settings, initial_input,
                 main_pc, txs, rxs, seeded, result, amp_tx, amp_rx>>

\* run_amplifier_chain, iteration i: run_amplifier_program(i, program,
\* queue![phase_setting as i32, next_input], Vec::new()) up to Computer::new.
\* The queue of engine i is kept in chan[i], what its Vec holds in
\* amp_written[i]
RunAmplifier(i) ==
    /\ find_pc = <<"chain", i>>
    /\ amp_pc[i] = "unspawned"
    /\ amp_pc' = [amp_pc EXCEPT ![i] = "running"]
    /\ amp_tape' = [amp_tape EXCEPT ![i] = to_vec(program)]
    /\ chan' = [chan EXCEPT ![i] = <<phase_settings[i + 1], next_input>>]
    /\ UNCHANGED <<chain_setup, amp_ip, amp_last_output, amp_read, amp_written>>

\* INPUT with the VecDeque: read yields Err on the empty queue, and the
\* instruction panics on Err
ChainInput(i) ==
    /\ amp_pc[i] = "running"
    /\ d7_decodes(i)
    /\ d7_opcode(i) = INPUT
    /\ LET at == amp_ip[i]
       IN  IF chan[i] = <<>>
           THEN /\ d7_panics(i)
                /\ UNCHANGED <<chan, amp_read, amp_tape, amp_ip>>
           ELSE /\ chan' = [chan EXCEPT ![i] = Tail(chan[i])]
                /\ amp_read' = [amp_read EXCEPT
                                   ![i] = Append(amp_read[i], Head(chan[i]))]
                /\ IF d7_store_ok(i, at + 1)
                   THEN /\ amp_tape' = d7_store(i, at + 1, Head(chan[i]))
                        /\ amp_ip' = [amp_ip EXCEPT ![i] = at + 2]
                        /\ UNCHANGED amp_pc
                   ELSE /\ d7_panics(i)
                        /\ UNCHANGED <<amp_tape, amp_ip>>
    /\ UNCHANGED <<chain_setup, amp_last_output, amp_written>>

\* OUTPUT with the Vec: write pushes the value
ChainOutput(i) ==
    /\ amp_pc[i] = "running"
    /\ d7_decodes(i)
    /\ d7_opcode(i) = OUTPUT
    /\ LET at == amp_ip[i]
       IN  IF d7_load_operand_ok(i, at + 1, d7_modes(i, 0))
           THEN LET output_value == d7_load_operand(i, at + 1, d7_modes(i, 0))
                IN  /\ amp_written' = [amp_written EXCEPT
                                          ![i] = Append(amp_written[i], output_value)]
                    /\ amp_last_output' = [amp_last_output EXCEPT
                                              ![i] = output_value]
                    /\ amp_ip' = [amp_ip EXCEPT ![i] = at + 2]
                    /\ UNCHANGED amp_pc
           ELSE /\ d7_panics(i)
                /\ UNCHANGED <<amp_written, amp_last_output, amp_ip>>
    /\ UNCHANGED <<chain_setup, chan, amp_tape, amp_read>>

\* run_amplifier_program returns to run_amplifier_chain, iteration i:
\* next_input is what run_program returned, the engine is dropped, and after
\* the last iteration next_input is the thruster input of the search
AmplifierReturns(i) ==
    /\ find_pc = <<"chain", i>>
    /\ amp_pc[i] = "done"
    /\ next_input' = amp_last_output[i]
    /\ IF i + 1 < AMPLIFIERS
       THEN /\ find_pc' = <<"chain", i + 1>>
            /\ UNCHANGED <<highest_thruster_value, thruster_inputs>>
       ELSE Highest(amp_last_output[i])
    /\ ring_dropped
    /\ UNCHANGED <<program, single, robot, feedback, permutations, phase_settings,
                   initial_input>>

\* a panic of the engine of iteration i ends the search
AmplifierPanics(i) ==
    /\ find_pc = <<"chain", i>>
    /\ amp_pc[i] = "panicked"
    /\ find_pc' = <<"panicked">>
    /\ UNCHANGED <<program, single, robot, feedback, permutations,
                   highest_thruster_value, next_input, thruster_inputs,
                   phase_settings, initial_input, main_pc, txs, rxs, chan,
                   seeded, result, ring_engines>>

\* one instruction of the engine of iteration i of run_amplifier_chain
chain_execute_instruction(i) ==
    /\ find_pc = <<"chain", i>>
    /\ \/ D7Arith(i)
       \/ ChainInput(i)
       \/ ChainOutput(i)
       \/ D7Jump(i)
       \/ D7Halt(i)
       \/ D7Invalid(i)

NextSearch ==
    \/ PermutationsNext
    \/ find_pc = <<"feedback">> /\ NextChain
    \/ FeedbackReturns
    \/ FeedbackPanics
    \/ \E i \in Amps : RunAmplifier(i)
    \/ \E i \in Amps : chain_execute_instruction(i)
    \/ \E i \in Amps : AmplifierReturns(i)
    \/ \E i \in Amps : AmplifierPanics(i)

\* find_best_phase_settings, with and without feedback
SpecSearch == InitSearch /\ [][NextSearch]_vars

----------------------------------------------------------------------------
(* Day 17: VacuumRobot::dry_run *)

\* the lines "NEED INPUT" are counted modulo MaxPrinted: the loop that
\* prints them has no end, and neither has their number
MaxPrinted == 3

\* b'.', b'#', b'^' and b'v'
Tiles == {46, 35, 94, 118}

\* the programs the robot is run with: "write two tiles and a line feed",
\* "read a value", "write a tile and read a value", "write a tile that is
\* computed and a line feed", and a word that is no instruction
DryRunPrograms ==
    {<<104, a, 104, b, 104, 10, 99>> : a, b \in Tiles}
        \cup {<<3, 0, 99>>,
              <<104, 35, 3, 0, 99>>,
              <<109, 1, 1101, 30, 5, 14, 1105, 1, 9, 4, 14, 104, 10, 99, 0>>,
              <<77>>}

\* VacuumRobot::new(&program), which is Computer::new(0, program,
\* VecDeque::new(), VecDeque::new()), at the entry of dry_run
InitDryRun ==
    /\ program \in {Vec(p) : p \in DryRunPrograms}
    /\ tape = program
    /\ input = <<>>
    /\ in_kind = "VecDeque"
    /\ output = <<>>
    /\ out_kind = "VecDeque"
    /\ rx_alive = TRUE
    /\ last_output = 0
    /\ ip = 0
    /\ run_state = NotYetStarted
    /\ relative_base = 0
    /\ pc = "idle"
    /\ ret = <<"none">>
    /\ written = <<>>
    /\ enqueued = <<>>
    /\ taken = <<>>
    /\ ev = Event("new", 0, NoAddr, 0)
    /\ SearchOff
    /\ phase_settings = <<>>
    /\ initial_input = 0
    /\ NoRing
    /\ robot_pc = "dry_run"
    /\ printed = 0

\* what the loop of dry_run leaves alone
robot_engine == <<program, single, search, phase_settings, initial_input,
                  main_pc, txs, rxs, chan, seeded, result, ring_engines>>

\* let run_state = self.computer.run_program()
DryRunRunProgram ==
    /\ robot_pc = "dry_run"
    /\ ret = <<"none">>
    /\ run_program

\* the loop, RunState::NeedInput => println!("NEED INPUT"): the next
\* iteration matches the same run_state
DryRunNeedInput ==
    /\ robot_pc = "dry_run"
    /\ pc = "idle"
    /\ ret = NeedInput
    /\ printed' = (printed + 1) % MaxPrinted
    /\ UNCHANGED <<robot_engine, robot_pc>>

\* the loop, RunState::Stopped(_) => break
DryRunStopped ==
    /\ robot_pc = "dry_run"
    /\ pc = "idle"
    /\ IsStopped(ret)
    /\ robot_pc' = "camera"
    /\ UNCHANGED <<robot_engine, printed>>

NextDryRun ==
    \/ DryRunRunProgram
    \/ execute_instruction
    \/ DryRunNeedInput
    \/ DryRunStopped

SpecDryRun == InitDryRun /\ [][NextDryRun]_vars

\* dry_run on a machine that runs its one thread: while the thread can take
\* a step, it eventually takes one
SpecDryRunFair == InitDryRun /\ [][NextDryRun]_vars /\ WF_vars(NextDryRun)

----------------------------------------------------------------------------
(* Properties *)

Last(q) == q[Len(q)]

\* the step is one of the engine (an instruction executed, or a panic)
EngineStep == pc = "running" /\ ev'.act \in {"exec", "panic"}

\* the step is a call of resume() or run_program()
CallStep == pc = "idle" /\ ev'.act = "resume"

\* the address an operand word names, by its mode digit
OperandAddress(k, digit) ==
    IF digit = 0 THEN AsUsize(load(ip + k))
    ELSE AsUsize(load(ip + k) + relative_base)

\* C1: once resume() has returned Stopped(v), the engine never runs again:
\* every later call returns the same Stopped(v) and leaves tape, ip, relative
\* base, last output, run state and both carriers as they are (the queue
\* changes only when the caller pushes to it).
C1_StoppedIsIdempotent ==
    [][IsStopped(ret) =>
          /\ pc' = "idle"
          /\ ret' = ret
          /\ UNCHANGED <<tape, ip, relative_base, last_output, run_state,
                         output, written>>
          /\ (CallStep => input' = input)]_vars

\* C1 witness: a call of resume() has just returned from a Stopped engine
\* that holds output, pending input and a grown tape.
C1_Witness ==
    /\ IsStopped(ret)
    /\ ev.act = "resume"
    /\ pc = "idle"
    /\ ret[2] # 0
    /\ input # <<>>
    /\ output # <<>>
    /\ VecLen(tape) > VecLen(program)

\* C2: an Input instruction that finds the carrier empty makes resume()
\* return NeedInput and changes nothing else (ip stays on the instruction);
\* a call of resume() on a suspended engine only re-enters the loop; and an
\* Input instruction that finds a value x takes exactly x from the front of
\* the queue, stores it at its destination and advances ip by 2 (or panics
\* on a destination that cannot be written).
C2_InputSuspendsAndRetries ==
    [][/\ (EngineStep /\ modes_valid /\ opcode = INPUT /\ input = <<>>) =>
              /\ pc' = "idle"
              /\ ret' = NeedInput
              /\ run_state' = NeedInput
              /\ UNCHANGED <<tape, ip, relative_base, output, last_output,
                             input, written>>
       /\ (CallStep /\ run_state = NeedInput) =>
              /\ pc' = "running"
              /\ UNCHANGED <<tape, ip, relative_base, output, last_output,
                             input, run_state>>
       /\ (EngineStep /\ modes_valid /\ opcode = INPUT /\ input # <<>>) =>
              /\ input' = Tail(input)
              /\ \/ /\ pc' = "panicked"
                    /\ \/ mode_digit(0) = 1
                       \/ OperandAddress(1, mode_digit(0)) >= MAX_MEMORY
                 \/ /\ pc' = "running"
                    /\ ip' = ip + 2
                    /\ mode_digit(0) # 1
                    /\ OperandAddress(1, mode_digit(0)) < VecLen(tape')
                    /\ Cell(tape', OperandAddress(1, mode_digit(0))) = Head(input)
      ]_vars

\* C2 witness: after a suspension, the Input instruction has run again and
\* stored the value the caller supplied.
C2_Witness ==
    /\ run_state = NeedInput
    /\ ret = NeedInput
    /\ pc = "running"
    /\ ev.act = "exec"
    /\ ev.op = INPUT
    /\ ev.addr # NoAddr
    /\ Cell(tape, ev.addr) = 7
    /\ input = <<>>

\* C3: resume() never returns NotYetStarted, the loop is left only by an
\* Input instruction that finds no input (NeedInput) or by Halt (Stopped),
\* and an Output instruction keeps the loop running.
C3_ReturnsOnlyAtInputOrHalt ==
    [][/\ ret' # NotYetStarted
       /\ (pc = "running" /\ pc' = "idle") =>
              \/ opcode = INPUT /\ input = <<>> /\ ret' = NeedInput
              \/ opcode = HALT /\ IsStopped(ret')
       /\ (CallStep /\ pc' = "idle") => IsStopped(ret')
       /\ (EngineStep /\ modes_valid /\ opcode = OUTPUT) => pc' = "running"
      ]_vars

\* C3 witness: an Output instruction has been executed and the loop of
\* resume() still runs.
C3_Witness ==
    /\ pc = "running"
    /\ ev.act = "exec"
    /\ ev.op = OUTPUT
    /\ written # <<>>
    /\ ret = <<"none">>

\* C4: when resume() has returned NeedInput, the word at ip has opcode 3, and
\* at the moment of the return the input carrier is empty.
C4_SuspendedOnlyAtEmptyInput ==
    (pc = "idle" /\ ret = NeedInput) =>
        /\ u32_mod100(load(ip)) = 3
        /\ (ev.act = "exec" => input = <<>>)

\* C4 witness: resume() has just returned NeedInput from an engine that has
\* already consumed input and written output.
C4_Witness ==
    /\ pc = "idle"
    /\ ret = NeedInput
    /\ ev.act = "exec"
    /\ written # <<>>
    /\ ip > 0

\* C5: an Output instruction hands its operand value to the output carrier
\* (which holds it next, unless the write fails), records it as last output
\* and advances ip by 2; and the v of a returned Stopped(v) is the operand of
\* the last Output instruction executed, or 0 if there was none.
C5_OutputAndStoppedValue ==
    [][/\ (EngineStep /\ modes_valid /\ opcode = OUTPUT) =>
              LET v == load_operand(ip + 1, modes(0))
              IN  /\ written' = Append(written, v)
                  /\ (write_ok => output' = Append(output, v))
                  /\ last_output' = v
                  /\ ip' = ip + 2
                  /\ tape' = tape
       /\ IsStopped(ret') =>
              ret'[2] = IF written' = <<>> THEN 0 ELSE Last(written')
       /\ (out_kind = "Vec") => output' = written'
      ]_vars

\* C5 witness: Halt after two Output instructions, returning the second value.
C5_Witness ==
    /\ IsStopped(ret)
    /\ Len(output) >= 2
    /\ ret[2] = Last(output)
    /\ ret[2] # output[1]

\* C6: an Output instruction whose write fails (Sender, Receiver dropped)
\* still records the value as last output, advances ip by 2 and keeps the
\* loop running, the carrier taking nothing; and a Halt that follows returns
\* that value.
C6_WriteErrorIsSwallowed ==
    [][/\ (EngineStep /\ modes_valid /\ opcode = OUTPUT /\ ~write_ok) =>
              /\ pc' = "running"
              /\ last_output' = load_operand(ip + 1, modes(0))
              /\ written' = Append(written, last_output')
              /\ ip' = ip + 2
              /\ output' = output
       /\ (EngineStep /\ modes_valid /\ opcode = HALT /\ written # <<>>) =>
              /\ pc' = "idle"
              /\ ret' = Stopped(Last(written))
      ]_vars

\* C6 witness: the engine has halted after an Output instruction whose write
\* failed, and returned the value of that instruction.
C6_Witness ==
    /\ IsStopped(ret)
    /\ out_kind = "Sender"
    /\ Len(written) > Len(output)
    /\ ret[2] = Last(written)
    /\ ret[2] # 0

\* the step executes an instruction that stores (Add, Multiply, Less-than,
\* Equals, or Input with a value at hand) through a destination operand that
\* is not in Immediate mode
StoreOffset == IF opcode = INPUT THEN 1 ELSE 3

StoreDigit == IF opcode = INPUT THEN mode_digit(0) ELSE mode_digit(2)

IsStoreStep ==
    /\ EngineStep
    /\ modes_valid
    /\ \/ opcode \in {ADD, MULTIPLY, LESS_THAN, EQUALS}
       \/ opcode = INPUT /\ input # <<>>
    /\ StoreDigit # 1

\* the address that step stores at
StoreAddress == OperandAddress(StoreOffset, StoreDigit)

\* C7: a store at MAX_MEMORY - 1 succeeds, leaves a tape of exactly
\* MAX_MEMORY cells and zero-fills the cells it creates below the address;
\* a store at MAX_MEMORY or beyond panics and leaves the tape as it is.
C7_StoreAtTheLimit ==
    [][IsStoreStep =>
          /\ (StoreAddress = MAX_MEMORY - 1) =>
                 /\ pc' = "running"
                 /\ VecLen(tape') = MAX_MEMORY
                 /\ Cell(tape', MAX_MEMORY - 1) = ev'.val
                 /\ Cells(tape', VecLen(tape), MAX_MEMORY - 1)
                        = Run(0, MAX_MEMORY - 1 - VecLen(tape))
          /\ (StoreAddress >= MAX_MEMORY) =>
                 /\ pc' = "panicked"
                 /\ tape' = tape]_vars

\* C7 as amended: a store at MAX_MEMORY - 1 succeeds; on a tape shorter
\* than MAX_MEMORY it leaves exactly MAX_MEMORY cells, the old cells as they
\* were and 0 in the cells created below the address, and on a longer tape
\* it leaves the length.  A store at MAX_MEMORY or beyond panics and leaves
\* the tape as it is when the address is at or beyond the extent of the tape;
\* on a tape that is longer (one constructed from a program of more than
\* MAX_MEMORY words) it succeeds.
C7_StoreAtTheLimit_Amended ==
    [][IsStoreStep =>
          LET a == StoreAddress
              n == VecLen(tape)
          IN  /\ (a = MAX_MEMORY - 1) =>
                     /\ pc' = "running"
                     /\ Cell(tape', a) = ev'.val
                     /\ IF n < MAX_MEMORY
                        THEN /\ VecLen(tape') = MAX_MEMORY
                             /\ Prefix(tape', n) = tape
                             /\ Cells(tape', n, a) = Run(0, a - n)
                        ELSE VecLen(tape') = n
              /\ (a >= MAX_MEMORY /\ a >= n) =>
                     /\ pc' = "panicked"
                     /\ tape' = tape
              /\ (a >= MAX_MEMORY /\ a < n) =>
                     /\ n > MAX_MEMORY
                     /\ VecLen(program) > MAX_MEMORY
                     /\ pc' = "running"
                     /\ VecLen(tape') = n
                     /\ Cell(tape', a) = ev'.val]_vars

\* C7 witness: a store at MAX_MEMORY - 1 has grown a seven-cell tape to
\* MAX_MEMORY cells.
C7_Witness ==
    /\ VecLen(program) = 7
    /\ ev.act = "exec"
    /\ ev.addr = MAX_MEMORY - 1
    /\ pc = "running"
    /\ VecLen(tape) = MAX_MEMORY
    /\ Cell(tape, MAX_MEMORY - 1) = 3
    /\ Cell(tape, MAX_MEMORY - 2) = 0
    /\ Cell(tape, 7) = 0

\* C8: the tape is never longer than MAX_MEMORY cells, whatever the program.
C8_TapeWithinLimit == VecLen(tape) <= MAX_MEMORY

\* C8 as amended: the tape is never longer than the longer of the program
\* and MAX_MEMORY: growth never takes it beyond MAX_MEMORY cells.
C8_GrowthWithinLimit ==
    VecLen(tape) <= (IF VecLen(program) > MAX_MEMORY THEN VecLen(program)
                     ELSE MAX_MEMORY)

\* C8 witness: a tape grown to exactly MAX_MEMORY cells from a program of
\* nine words, whose next store (at MAX_MEMORY) has panicked.
C8_Witness ==
    /\ VecLen(program) = 9
    /\ VecLen(tape) = MAX_MEMORY
    /\ pc = "panicked"
    /\ ev.op = ADD

\* C9: a load at or beyond the extent of the tape answers 0; an instruction
\* that loads there completes with that 0 and leaves the tape and its length
\* as they are (Output writes 0, the relative base moves by 0), and a fetch
\* there reads the word 0.
C9_LoadBeyondExtent ==
    [][/\ \A a \in {VecLen(tape), VecLen(tape) + 1, MAX_MEMORY, USIZE_TOP - 1} :
              a >= VecLen(tape) => load(a) = 0
       /\ (/\ EngineStep
           /\ modes_valid
           /\ opcode \in {OUTPUT, RELATIVE_BASE_OFFSET}
           /\ mode_digit(0) # 1
           /\ OperandAddress(1, mode_digit(0)) >= VecLen(tape)) =>
              /\ pc' = "running"
              /\ tape' = tape
              /\ ev'.val = 0
              /\ (opcode = OUTPUT => written' = Append(written, 0))
              /\ (opcode = RELATIVE_BASE_OFFSET => relative_base' = relative_base)
       /\ (EngineStep /\ ip >= VecLen(tape)) =>
              /\ ev'.op = 0
              /\ tape' = tape
      ]_vars

\* C9 witness: "output the cell at address -1" has written 0 and left the
\* tape as the program.
C9_Witness ==
    /\ program = Vec(<<4, 0 - 1, 0, 3, 4, 3, 99>>)
    /\ ev.act = "exec"
    /\ ev.op = OUTPUT
    /\ ip = 2
    /\ written = <<0>>
    /\ tape = program

\* C10: a store at an address a at or beyond the extent (and below
\* MAX_MEMORY) leaves a tape of a + 1 cells, with the value in cell a, 0 in
\* every cell created below a and the old cells as they were; a store below
\* the extent changes cell a alone and not the length.
C10_StoreGrowsExactly ==
    [][(IsStoreStep /\ pc' = "running") =>
          LET a == StoreAddress
              v == ev'.val
              n == VecLen(tape)
          IN  /\ ev'.addr = a
              /\ Cell(tape', a) = v
              /\ IF a >= n
                 THEN /\ a < MAX_MEMORY
                      /\ VecLen(tape') = a + 1
                      /\ Prefix(tape', n) = tape
                      /\ Cells(tape', n, a) = Run(0, a - n)
                 ELSE /\ VecLen(tape') = n
                      /\ Prefix(tape', a) = Prefix(tape, a)
                      /\ Suffix(tape', a + 1) = Suffix(tape, a + 1)]_vars

\* C10 witness: a store at address 9 of a seven-cell tape has left ten cells,
\* cells 7 and 8 holding 0.
C10_Witness ==
    /\ VecLen(program) = 7
    /\ ev.act = "exec"
    /\ ev.addr = 9
    /\ ev.val # 0
    /\ VecLen(tape) = 10
    /\ Cell(tape, 7) = 0
    /\ Cell(tape, 8) = 0
    /\ Cell(tape, 9) = ev.val
    /\ Cells(tape, 1, 7) = Cells(program, 1, 7)

\* the word an operand computation takes for the address of operand k, before
\* the cast to usize: the operand word, plus the relative base in Relative mode
RawAddress(k) ==
    IF mode_digit(k - 1) = 0 THEN load(ip + k) ELSE load(ip + k) + relative_base

\* the instruction at ip computes operand k (k is 1, 2 or 3)
UsesOperand(k) ==
    \/ opcode \in {ADD, MULTIPLY, LESS_THAN, EQUALS}
    \/ opcode = INPUT /\ input # <<>> /\ k = 1
    \/ opcode \in {OUTPUT, RELATIVE_BASE_OFFSET} /\ k = 1
    \/ opcode \in {JUMP_IF_TRUE, JUMP_IF_FALSE} /\ k = 1
    \/ /\ opcode \in {JUMP_IF_TRUE, JUMP_IF_FALSE}
       /\ k = 2
       /\ should_jump(load_operand(ip + 1, modes(0)), opcode)

\* the instruction at ip stores through operand k
StoresThrough(k) ==
    \/ opcode \in {ADD, MULTIPLY, LESS_THAN, EQUALS} /\ k = 3
    \/ opcode = INPUT /\ input # <<>> /\ k = 1

C11_NegativeStoreIsFatal ==
    [][(/\ EngineStep
        /\ modes_valid
        /\ \E k \in 1..3 : /\ StoresThrough(k)
                           /\ mode_digit(k - 1) # 1
                           /\ RawAddress(k) < 0) =>
          /\ pc' = "panicked"
          /\ tape' = tape]_vars

\* C12: fetching a word whose opcode is not one of 1..9 and 99 panics and
\* leaves tape, ip and relative base as they are; a fetch at an ip at or
\* beyond the extent of the tape reads the word 0, whose opcode is 0, and
\* panics so.
C12_InvalidOpcodeIsFatal ==
    [][/\ (EngineStep /\ opcode \notin ((1..9) \cup {99})) =>
              /\ pc' = "panicked"
              /\ UNCHANGED <<tape, ip, relative_base, run_state, ret>>
       /\ (EngineStep /\ ip >= VecLen(tape)) =>
              /\ instruction = 0
              /\ opcode = 0
              /\ pc' = "panicked"
              /\ UNCHANGED <<tape, ip, relative_base>>
      ]_vars

\* C12 witness: a jump has taken ip beyond the extent of the tape and the
\* fetch there has panicked on opcode 0.
C12_Witness ==
    /\ pc = "panicked"
    /\ tape # <<>>
    /\ ip >= VecLen(tape)
    /\ ev.act = "panic"
    /\ ev.op = 0
    /\ tape = program

\* the decimal digit (word / 10^(k+1)) mod 10 of a word that is not negative
Digit(word, k) ==
    CASE k = 1 -> (word \div 100) % 10
      [] k = 2 -> (word \div 1000) % 10
      [] k = 3 -> (word \div 10000) % 10

\* the value of source operand k read in the mode its digit d names
ValueByDigit(k, d) ==
    CASE d = 0 -> load(AsUsize(load(ip + k)))
      [] d = 1 -> load(ip + k)
      [] d = 2 -> load(AsUsize(load(ip + k) + relative_base))

\* C13: the mode of operand k (1..3) is the decimal digit
\* (word / 10^(k+1)) mod 10 of the instruction word, 0 being Position,
\* 1 Immediate and 2 Relative: Output writes, Adjust-relative-base adds and
\* the arithmetic instructions combine the operand values read in those modes
\* and store at the address the third digit names; and an instruction word
\* with one of the three digits in 3..9 panics.
C13_ModeDigits ==
    [][(EngineStep /\ instruction >= 0) =>
          LET d(k) == Digit(instruction, k)
          IN  /\ \A k \in 1..3 :
                    /\ mode_digit(k - 1) = d(k)
                    /\ (d(k) = 0 <=> modes(k - 1) = "Position")
                    /\ (d(k) = 1 <=> modes(k - 1) = "Immediate")
                    /\ (d(k) = 2 <=> modes(k - 1) = "Relative")
              /\ (\E k \in 1..3 : d(k) \in 3..9) =>
                    /\ pc' = "panicked"
                    /\ UNCHANGED engine
              /\ (/\ \A k \in 1..3 : d(k) \in 0..2
                  /\ instruction % 100 \in {OUTPUT, RELATIVE_BASE_OFFSET}) =>
                    ev'.val = ValueByDigit(1, d(1))
              /\ (/\ \A k \in 1..3 : d(k) \in 0..2
                  /\ instruction % 100 \in {ADD, MULTIPLY, LESS_THAN, EQUALS}
                  /\ pc' = "running") =>
                    /\ ev'.val = operation(ValueByDigit(1, d(1)),
                                           ValueByDigit(2, d(2)),
                                           instruction % 100)
                    /\ d(3) # 1
                    /\ ev'.addr = OperandAddress(3, d(3))
              /\ (/\ \A k \in 1..3 : d(k) \in 0..2
                  /\ instruction % 100 \in {JUMP_IF_TRUE, JUMP_IF_FALSE}) =>
                    ip' = IF should_jump(ValueByDigit(1, d(1)), instruction % 100)
                          THEN AsUsize(ValueByDigit(2, d(2)))
                          ELSE ip + 3
      ]_vars

\* C13 witness: the word 2201 (operands 1 and 2 Relative, operand 3
\* Position) has been executed behind a relative base that is not 0.
C13_Witness ==
    /\ pc = "running"
    /\ ev.act = "exec"
    /\ ev.op = ADD
    /\ relative_base # 0
    /\ ip = 6
    /\ Cell(program, 2) = 2201
    /\ ev.addr # NoAddr

\* C14: a destination operand in Position mode is stored at the address
\* load(offset), in Relative mode at load(offset) + relative_base (the
\* instruction panics instead when that address cannot be stored at), and a
\* destination operand in Immediate mode panics; a panic leaves the tape as
\* it is.
C14_DestinationModes ==
    [][(/\ EngineStep
        /\ modes_valid
        /\ \/ opcode \in {ADD, MULTIPLY, LESS_THAN, EQUALS}
           \/ opcode = INPUT /\ input # <<>>) =>
          LET k == StoreOffset
              d == StoreDigit
              a == IF d = 0 THEN AsUsize(load(ip + k))
                   ELSE AsUsize(load(ip + k) + relative_base)
          IN  /\ (d = 1) => (pc' = "panicked" /\ tape' = tape)
              /\ (d # 1) =>
                    IF a >= VecLen(tape) /\ a >= MAX_MEMORY
                    THEN pc' = "panicked" /\ tape' = tape
                    ELSE /\ pc' = "running"
                         /\ ev'.addr = a
                         /\ Cell(tape', a) = ev'.val
                         /\ tape' = store(a, ev'.val)
      ]_vars

\* C14 witness: an Add whose destination operand is in Immediate mode has
\* panicked and left the tape as the program.
C14_Witness ==
    /\ pc = "panicked"
    /\ ev.act = "panic"
    /\ ev.op = ADD
    /\ Cell(program, 0) \in {10001, 11101}
    /\ ip = 0
    /\ tape = program

\* C15: the relative base is 0 after construction; a step changes it only by
\* executing Adjust-relative-base, which adds its operand value to it; and
\* the suspension at an Input instruction and the call of resume() that
\* follows leave it as it is.
C15_RelativeBase ==
    /\ relative_base = 0
    /\ [][/\ (relative_base' # relative_base) =>
                 (EngineStep /\ modes_valid /\ opcode = RELATIVE_BASE_OFFSET)
          /\ (EngineStep /\ modes_valid /\ opcode = RELATIVE_BASE_OFFSET) =>
                 /\ relative_base'
                        = relative_base + ValueByDigit(1, mode_digit(0))
                 /\ ip' = ip + 2
                 /\ pc' = "running"
                 /\ UNCHANGED <<tape, input, output, last_output, run_state>>
          /\ (pc' = "idle" \/ CallStep) => relative_base' = relative_base
         ]_vars

\* C15 witness: an engine suspended behind a relative base of 3 has been
\* resumed and still has that base.
C15_Witness ==
    /\ relative_base = 3
    /\ run_state = NeedInput
    /\ ret = NeedInput
    /\ pc = "running"
    /\ ev.act = "resume"

\* the engine has been constructed and neither resume() nor run_program()
\* has been called
Constructed == pc = "idle" /\ ret = <<"none">>

\* C16: as long as the engine is only constructed it has executed nothing:
\* the run state is NotYetStarted, ip, relative base and last output are 0,
\* the tape is the program and nothing has been read or written; and no step
\* of the engine changes the caller's program, from which every other engine
\* takes its own copy.
C16_ConstructionCopies ==
    /\ Constructed
    /\ [](Constructed =>
             /\ run_state = NotYetStarted
             /\ ip = 0
             /\ relative_base = 0
             /\ last_output = 0
             /\ tape = program
             /\ output = <<>>
             /\ written = <<>>
             /\ taken = <<>>)
    /\ [][program' = program]_vars

\* C16 witness: the engine has overwritten a cell of its tape, which now
\* differs from the program.
C16_Witness ==
    /\ pc = "running"
    /\ ev.act = "exec"
    /\ ev.op \in {ADD, MULTIPLY}
    /\ VecLen(tape) = VecLen(program)
    /\ tape # program
    /\ Cell(tape, ev.addr) # Cell(program, ev.addr)

\* C17: a step is a call of run_program() exactly if it is a call of
\* resume(): from every engine state the two calls leave the same state and
\* return the same RunState; and the calls happen in all three run states.
C17_RunProgramIsResume ==
    [][/\ run_program <=> resume
       /\ CallStep => (run_program /\ resume)
       /\ (CallStep /\ IsStopped(run_state)) => (pc' = "idle" /\ ret' = run_state)
       /\ (CallStep /\ ~IsStopped(run_state)) => (pc' = "running" /\ ret' = ret)
      ]_vars

\* C17 witness: the call has been made on an engine suspended at an Input
\* instruction, with input pending.
C17_Witness ==
    /\ ev.act = "resume"
    /\ pc = "running"
    /\ run_state = NeedInput
    /\ input # <<>>
    /\ ip > 0

\* C18: the queue hands out what was put into it, in that order: the values
\* enqueued are the values taken followed by the values pending.  An Input
\* instruction that finds a value takes exactly the front of the queue, and
\* being the k-th to do so it takes, and stores, the k-th value enqueued; no
\* other step of the engine touches the queue.  On an empty queue try_read
\* answers None and read answers Err, and the queue stays empty.
C18_FifoInput ==
    /\ [](enqueued = taken \o input)
    /\ [](input = <<>> =>
             /\ try_read = <<>>
             /\ try_read_rest = <<>>
             /\ read = <<"Err">>
             /\ read_rest = <<>>)
    /\ [][/\ (EngineStep /\ modes_valid /\ opcode = INPUT /\ input # <<>>) =>
                 LET k == Len(taken) + 1
                 IN  /\ input' = Tail(input)
                     /\ taken' = Append(taken, Head(input))
                     /\ taken'[k] = enqueued[k]
                     /\ pc' = "running" =>
                            /\ ev'.val = enqueued[k]
                            /\ Cell(tape', ev'.addr) = enqueued[k]
          /\ (EngineStep /\ ~(modes_valid /\ opcode = INPUT /\ input # <<>>)) =>
                 UNCHANGED <<input, taken, enqueued>>
         ]_vars

\* C18 witness: the second Input instruction has stored the second value
\* enqueued, which differs from the first, and a third value is pending.
C18_Witness ==
    /\ pc = "running"
    /\ ev.act = "exec"
    /\ ev.op = INPUT
    /\ Len(taken) = 2
    /\ taken[1] # taken[2]
    /\ ev.val = enqueued[2]
    /\ Len(input) = 1
    /\ Len(enqueued) = 3

\* C19: an Option carrier holds at most one value.  read and try_read answer
\* the value the slot holds and leave the slot empty, so that a read that
\* follows another without a refill answers no value; a write replaces what
\* the slot holds, so that the slot holds the last value written and no
\* other.
C19_OptionCarrier ==
    /\ [](in_kind = "Option" => Len(input) <= 1)
    /\ [](out_kind = "Option" =>
             /\ Len(output) <= 1
             /\ output = IF written = <<>> THEN <<>> ELSE <<Last(written)>>)
    /\ [][/\ (in_kind = "Option" /\ ev'.act = "try_read") =>
                 /\ ev'.val = input
                 /\ input' = <<>>
          /\ (in_kind = "Option" /\ ev'.act = "read") =>
                 /\ ev'.val = IF input = <<>> THEN <<"Err">>
                              ELSE <<"Ok", input[1]>>
                 /\ input' = <<>>
          /\ (/\ in_kind = "Option"
              /\ ev.act \in {"read", "try_read"}
              /\ ev'.act \in {"read", "try_read"}) =>
                 ev'.val \in {<<>>, <<"Err">>}
          /\ (out_kind = "Option" /\ ev'.act = "write") =>
                 output' = <<ev'.val>>
         ]_vars

\* C19 witness: a second write has replaced a different value in the output
\* slot, and a read has followed a read that took the value of the input slot.
C19_Witness ==
    /\ in_kind = "Option"
    /\ out_kind = "Option"
    /\ Len(written) = 2
    /\ written[1] # written[2]
    /\ output = <<written[2]>>
    /\ taken # <<>>
    /\ ev.act = "read"
    /\ ev.val = <<"Err">>
    /\ input = <<>>

\* p is a prefix of q
IsPrefix(p, q) == Len(p) <= Len(q) /\ p = SubSeq(q, 1, Len(p))

\* the values the engine that owns the Receiver of channel c has read
ReadFrom(c) ==
    IF \E i \in Amps : amp_rx[i] = c
    THEN amp_read[CHOOSE i \in Amps : amp_rx[i] = c]
    ELSE <<>>

\* the operands of the Output instructions of the engine that owns the
\* Sender of channel c
WrittenTo(c) ==
    IF \E i \in Amps : amp_tx[i] = c
    THEN amp_written[CHOOSE i \in Amps : amp_tx[i] = c]
    ELSE <<>>

\* C20: on every channel, whatever the threads' interleaving, the values the
\* consumer has read are a prefix of the values the channel was seeded with
\* followed by the values the producer has written, in the order it wrote
\* them; and while the Receiver exists the values read followed by the
\* values in flight are exactly those: none is lost, doubled or out of place.
C20_ChannelOrder ==
    \A c \in Amps :
        /\ IsPrefix(ReadFrom(c), seeded[c] \o WrittenTo(c))
        /\ ReceiverAlive(c) => ReadFrom(c) \o chan[c] = seeded[c] \o WrittenTo(c)

\* C20 witness: with producer and consumer both running, the consumer has
\* read a value the producer wrote while the next, different, value the
\* producer wrote is in flight.
C20_Witness ==
    \E c \in Amps :
        /\ \E i \in Amps : amp_rx[i] = c /\ amp_pc[i] = "running"
        /\ \E i \in Amps : amp_tx[i] = c /\ amp_pc[i] = "running"
        /\ Len(ReadFrom(c)) > Len(seeded[c])
        /\ chan[c] # <<>>
        /\ Last(ReadFrom(c)) # chan[c][1]
        /\ Last(ReadFrom(c)) = WrittenTo(c)[1]
        /\ chan[c][1] = WrittenTo(c)[2]

\* the phase settings, as a set
PhaseSet == {phase_settings[k] : k \in 1..AMPLIFIERS}

\* the main thread has reached the loop that spawns the engine threads
SpawnReached == main_pc[1] \in {"spawn", "join", "returned", "panicked"}

\* the engines whose first value read is p
FirstReaders(p) == {i \in Amps : amp_read[i] # <<>> /\ amp_read[i][1] = p}

\* the engines that own the Receiver of a channel seeded with two values
SecondSeedReaders ==
    {i \in Amps : amp_rx[i] \in Amps /\ Len(seeded[amp_rx[i]]) = 2}

\* C21: no engine thread exists before the main thread has seeded all five
\* channels; from then on every channel was seeded with a phase setting
\* first, no two channels with the same, and exactly one channel was seeded
\* with a second value, the initial input, behind its phase setting; when
\* the first thread is spawned the channels hold exactly these values.
\* Hence the first value an engine reads is the phase setting of its
\* channel, no phase setting is the first value of two engines (and each is
\* that of one engine once all five have read), and the second value an
\* engine reads is the seeded initial input for the one engine whose channel
\* carries it and a value written by its producer for every other engine.
C21_SeededBeforeSpawn ==
    /\ (\E i \in Amps : amp_pc[i] # "unspawned") => SpawnReached
    /\ SpawnReached =>
           /\ \A c \in Amps :
                  /\ seeded[c] # <<>>
                  /\ seeded[c][1] \in PhaseSet
                  /\ Len(seeded[c]) > 1 => seeded[c] = <<seeded[c][1], initial_input>>
           /\ \A c, d \in Amps : seeded[c][1] = seeded[d][1] => c = d
           /\ Cardinality({c \in Amps : Len(seeded[c]) = 2}) = 1
    /\ main_pc = <<"spawn", 0>> => chan = seeded
    /\ \A i \in Amps :
           amp_read[i] # <<>> => amp_read[i][1] = seeded[amp_rx[i]][1]
    /\ \A p \in PhaseSet :
           /\ Cardinality(FirstReaders(p)) <= 1
           /\ (\A i \in Amps : amp_read[i] # <<>>) =>
                  Cardinality(FirstReaders(p)) = 1
    /\ Cardinality(SecondSeedReaders) <= 1
    /\ main_pc[1] \in {"join", "returned"} => Cardinality(SecondSeedReaders) = 1
    /\ \A i \in Amps :
           Len(amp_read[i]) >= 2 =>
               IF i \in SecondSeedReaders
               THEN amp_read[i][2] = initial_input
               ELSE amp_read[i][2] = WrittenTo(amp_rx[i])[1]

\* C21 witness: all five engines have read their first value, five different
\* phase settings, and the engine whose channel carries the initial input
\* has read it as its second value.
C21_Witness ==
    /\ \A i \in Amps : amp_read[i] # <<>>
    /\ {amp_read[i][1] : i \in Amps} = PhaseSet
    /\ \E i \in SecondSeedReaders :
           /\ Len(amp_read[i]) >= 2
           /\ amp_read[i][2] = initial_input
           /\ amp_read[i][1] # initial_input
    /\ \E i \in Amps \ SecondSeedReaders : Len(amp_read[i]) >= 2

\* the engine of thread i is about to execute an Input instruction
AtInput(i) ==
    /\ amp_pc[i] = "running"
    /\ d7_decodes(i)
    /\ d7_opcode(i) = INPUT

\* no channel holds a value
NoValueInFlight == \A c \in Amps : chan[c] = <<>>

\* every engine is at an Input instruction and no channel holds a value
AllBlocked == NoValueInFlight /\ \A i \in Amps : AtInput(i)

\* no channel was seeded
NothingSeeded == \A c \in Amps : seeded[c] = <<>>

\* C22: read blocks: an engine at an Input instruction whose channel is
\* empty while its Sender exists does not move.  In a ring where nothing was
\* seeded, no channel holds a value and no engine has read one for as long
\* as no engine has executed an Output instruction; so once every engine has
\* come to an Input instruction without having executed an Output, all are
\* blocked.  And once all five engines are blocked on empty channels they
\* stay so for ever: no engine halts or panics, no value is sent, and the
\* main thread waits in its first join and never returns.
C22_UnseededRingDeadlocks ==
    /\ [][\A i \in Amps :
              (/\ AtInput(i)
               /\ chan[amp_rx[i]] = <<>>
               /\ SenderAlive(amp_rx[i])) =>
                  /\ amp_pc'[i] = "running"
                  /\ amp_ip'[i] = amp_ip[i]
                  /\ amp_tape'[i] = amp_tape[i]
                  /\ amp_read'[i] = amp_read[i]]_vars
    /\ []((NothingSeeded /\ \A i \in Amps : amp_written[i] = <<>>) =>
             /\ NoValueInFlight
             /\ \A i \in Amps : amp_read[i] = <<>>)
    /\ []((NothingSeeded /\ \A i \in Amps : AtInput(i) /\ amp_written[i] = <<>>) =>
             AllBlocked)
    /\ [](AllBlocked =>
             /\ \A i \in Amps : amp_pc[i] \notin {"done", "panicked"}
             /\ main_pc = <<"join", 0>>)
    /\ [][AllBlocked =>
              /\ AllBlocked'
              /\ UNCHANGED <<chan, result, main_pc, amp_pc, amp_tape, amp_ip,
                             amp_last_output, amp_read, amp_written>>]_vars

\* C22 witness: nothing was seeded, all five engines are at their first
\* Input instruction, none has read or written a value, and the main thread
\* waits in its first join.
C22_Witness ==
    /\ NothingSeeded
    /\ AllBlocked
    /\ \A i \in Amps : amp_read[i] = <<>> /\ amp_written[i] = <<>>
    /\ main_pc = <<"join", 0>>

\* the program of the ring is one of the amplifier programs
IsAmplifierProgram == to_vec(program) \in AmplifierPrograms

\* the rounds of an amplifier program: the values an engine writes before it
\* halts
Rounds == IF Len(to_vec(program)) > 20 THEN 5 ELSE 1

\* C23: on an amplifier program every engine reads its phase and then reads
\* and writes in turn, and halts only after its last round.  Under every
\* interleaving no thread panics, all five engine threads come to their end
\* and the function returns; what it returns is the last value written by
\* engine 4, the engine joined last, whose Sender feeds the channel that was
\* seeded with the initial input, read by the engine that received it.
C23_FeedbackRingTerminates ==
    /\ [](IsAmplifierProgram =>
             /\ main_pc # <<"panicked">>
             /\ \A i \in Amps :
                    /\ amp_pc[i] # "panicked"
                    /\ Len(amp_written[i]) <= Rounds
                    /\ Len(amp_read[i]) \in
                           IF amp_read[i] = <<>> THEN {0}
                           ELSE {Len(amp_written[i]) + 1, Len(amp_written[i]) + 2}
                    /\ amp_pc[i] = "done" =>
                           /\ Len(amp_written[i]) = Rounds
                           /\ Len(amp_read[i]) = Rounds + 1)
    /\ IsAmplifierProgram ~>
           (main_pc = <<"returned">> /\ \A i \in Amps : amp_pc[i] = "done")
    /\ []((IsAmplifierProgram /\ main_pc = <<"returned">>) =>
             /\ \A i \in Amps : amp_pc[i] = "done"
             /\ result = Last(amp_written[4])
             /\ result = amp_last_output[4]
             /\ Len(seeded[amp_tx[4]]) = 2
             /\ \E j \in SecondSeedReaders :
                    /\ amp_rx[j] = amp_tx[4]
                    /\ amp_read[j][2] = initial_input
                    /\ amp_read[j] =
                           SubSeq(seeded[amp_tx[4]] \o amp_written[4],
                                  1, Rounds + 1))

\* C23 witness: the function has returned the value of the first example of
\* the tests, and the engine that received the initial input had halted
\* before engine 4 wrote its last value.
C23_Witness ==
    /\ IsAmplifierProgram
    /\ main_pc = <<"returned">>
    /\ Rounds = 5
    /\ result = 139629729
    /\ result = Last(amp_written[4])
    /\ chan[amp_tx[4]] = <<>>

\* the engine, its carriers and what its caller sees
Computer ==
    [tape |-> tape, input |-> input, output |-> output,
     last_output |-> last_output, ip |-> ip, run_state |-> run_state,
     relative_base |-> relative_base, pc |-> pc, ret |-> ret,
     written |-> written]

\* the one Computer a call of resume() leaves
AfterCall ==
    IF IsStopped(run_state) THEN [Computer EXCEPT !.ret = run_state]
    ELSE [Computer EXCEPT !.pc = "running"]

\* the one Computer an iteration of the loop of resume() leaves, by the
\* instruction at ip, the tape, the relative base and the carriers
AfterInstruction ==
    LET panicked == [Computer EXCEPT !.pc = "panicked"]
    IN  IF ~modes_valid \/ opcode \notin Opcodes THEN panicked
        ELSE CASE opcode \in {ADD, MULTIPLY, LESS_THAN, EQUALS} ->
                    IF store_operand_panics(ip + 3, modes(2)) THEN panicked
                    ELSE [Computer EXCEPT
                             !.tape = store_operand(ip + 3, modes(2),
                                         operation(load_operand(ip + 1, modes(0)),
                                                   load_operand(ip + 2, modes(1)),
                                                   opcode)),
                             !.ip = ip + 4]
               [] opcode = INPUT ->
                    IF input = <<>>
                    THEN [Computer EXCEPT !.run_state = NeedInput,
                                          !.ret = NeedInput, !.pc = "idle"]
                    ELSE IF store_operand_panics(ip + 1, modes(0))
                    THEN [panicked EXCEPT !.input = Tail(input)]
                    ELSE [Computer EXCEPT
                             !.input = Tail(input),
                             !.tape = store_operand(ip + 1, modes(0), Head(input)),
                             !.ip = ip + 2]
               [] opcode = OUTPUT ->
                    LET v == load_operand(ip + 1, modes(0))
                    IN  [Computer EXCEPT
                            !.output = IF write_ok THEN Append(output, v) ELSE output,
                            !.last_output = v,
                            !.written = Append(written, v),
                            !.ip = ip + 2]
               [] opcode \in {JUMP_IF_TRUE, JUMP_IF_FALSE} ->
                    [Computer EXCEPT
                        !.ip = IF should_jump(load_operand(ip + 1, modes(0)), opcode)
                               THEN AsUsize(load_operand(ip + 2, modes(1)))
                               ELSE ip + 3]
               [] opcode = RELATIVE_BASE_OFFSET ->
                    [Computer EXCEPT
                        !.relative_base = relative_base
                                              + load_operand(ip + 1, modes(0)),
                        !.ip = ip + 2]
               [] opcode = HALT ->
                    [Computer EXCEPT !.run_state = Stopped(last_output),
                                     !.ret = Stopped(last_output), !.pc = "idle"]

\* C24: the engine is deterministic.  What an iteration of the loop of
\* resume() leaves (tape, ip, relative base, run state, last output, both
\* carriers, and whether and what the call returns) is one function of what
\* it finds, and so is what a call of resume() leaves; a value pushed by the
\* caller and a dropped Receiver change the carriers only.  Two engines
\* constructed from the same program and given the same values at the same
\* calls are in the same state to begin with, and so after every step.
C24_Deterministic ==
    [][/\ EngineStep => Computer' = AfterInstruction
       /\ CallStep => Computer' = AfterCall
       /\ (~EngineStep /\ ~CallStep) =>
              /\ ev'.act \in {"supply", "drop"}
              /\ ev'.act = "supply" =>
                     Computer' = [Computer EXCEPT !.input = Append(input, ev'.val)]
              /\ ev'.act = "drop" => Computer' = Computer
       /\ UNCHANGED program
      ]_vars

\* C24 witness: an engine that suspended and was resumed has taken two
\* different values in two Input instructions, has written a value, and has
\* just executed an instruction with a second value pending.
C24_Witness ==
    /\ pc = "running"
    /\ ev.act = "exec"
    /\ run_state = NeedInput
    /\ Len(taken) = 2
    /\ taken[1] # taken[2]
    /\ written # <<>>

\* the micro-programs of the tests example_program_1..4 and parameter_modes:
\* the program, the tape before each of its instructions, the last being
\* the tape listed for it, and the ip of its Halt
MicroPrograms == {
    [trace |-> << <<1, 0, 0, 0, 99>>, <<2, 0, 0, 0, 99>> >>, halt |-> 4],
    [trace |-> << <<2, 3, 0, 3, 99>>, <<2, 3, 0, 6, 99>> >>, halt |-> 4],
    [trace |-> << <<2, 4, 4, 5, 99, 0>>, <<2, 4, 4, 5, 99, 9801>> >>, halt |-> 4],
    [trace |-> << <<1, 1, 1, 4, 99, 5, 6, 0, 99>>,
                  <<1, 1, 1, 4, 2, 5, 6, 0, 99>>,
                  <<30, 1, 1, 4, 2, 5, 6, 0, 99>> >>, halt |-> 8],
    [trace |-> << <<1002, 4, 3, 4, 33>>, <<1002, 4, 3, 4, 99>> >>, halt |-> 4] }

\* C25: each micro-program runs without a panic and without asking for
\* input through its instructions of four words to its Halt, which for the
\* last two is a word an earlier instruction has stored; before each
\* instruction the tape is the program with exactly the cells stored so far
\* changed, and at the Halt, and when the call has returned Stopped, it is
\* exactly the tape listed, of the length of the program.
C25_MicroPrograms ==
    \A m \in MicroPrograms :
        program = Vec(m.trace[1]) =>
            /\ pc # "panicked"
            /\ run_state # NeedInput
            /\ ip \in {4 * k : k \in 0..(Len(m.trace) - 1)}
            /\ tape = Vec(m.trace[(ip \div 4) + 1])
            /\ ip = m.halt =>
                   /\ opcode = HALT
                   /\ tape = Vec(m.trace[Len(m.trace)])
                   /\ VecLen(tape) = VecLen(program)
            /\ IsStopped(run_state) =>
                   /\ ip = m.halt
                   /\ run_state = Stopped(0)
                   /\ output = <<>>

\* C25 witness: the program 1,1,1,4,99,5,6,0,99 has halted at the Halt its
\* first instruction stored over, with the tape 30,1,1,4,2,5,6,0,99.
C25_Witness ==
    /\ program = Vec(<<1, 1, 1, 4, 99, 5, 6, 0, 99>>)
    /\ IsStopped(ret)
    /\ pc = "idle"
    /\ ip = 8
    /\ tape = Vec(<<30, 1, 1, 4, 2, 5, 6, 0, 99>>)

\* the engine was constructed from program p
Runs(p) == VecLen(program) = Len(p) /\ to_vec(program) = p

\* the program of the test input_output
EchoProgram == <<3, 0, 4, 0, 99>>

\* C26: the program 3,0,4,0,99 never panics; it suspends only at its Input
\* instruction, before it has taken a value, and hands control back after
\* that only when halted; the one value it takes is the first value v
\* of the queue, which it stores in cell 0 and writes; once a value is
\* there it runs on to the Halt at ip 4, and when it has halted the values
\* written are exactly <<v>> (and so is the output, in a Vec), the run state
\* is Stopped(v) and the queue holds what was pushed behind v: nothing for
\* the queue [v].
C26_Echo ==
    Runs(EchoProgram) =>
        /\ pc # "panicked"
        /\ ip \in {0, 2, 4}
        /\ (pc = "idle" /\ ret = NeedInput) => (ip = 0 /\ taken = <<>>)
        /\ (pc = "idle" /\ ip > 0) => IsStopped(ret)
        /\ ip >= 2 =>
               /\ taken = <<enqueued[1]>>
               /\ Cell(tape, 0) = enqueued[1]
               /\ VecLen(tape) = 5
        /\ ip = 2 => opcode = OUTPUT /\ written = <<>>
        /\ ip = 4 =>
               /\ opcode = HALT
               /\ written = <<enqueued[1]>>
               /\ last_output = enqueued[1]
               /\ out_kind = "Vec" => output = <<enqueued[1]>>
        /\ IsStopped(run_state) =>
               /\ ip = 4
               /\ run_state = Stopped(enqueued[1])
               /\ input = Tail(enqueued)
               /\ Len(enqueued) = 1 => input = <<>>

\* C26 witness: run on the queue [-1] and never given another value, the
\* program has halted with output [-1], Stopped(-1) and an empty queue.
C26_Witness ==
    /\ Runs(EchoProgram)
    /\ out_kind = "Vec"
    /\ ret = Stopped(0 - 1)
    /\ pc = "idle"
    /\ enqueued = <<0 - 1>>
    /\ output = <<0 - 1>>
    /\ input = <<>>

\* the program of the test example_program_5
CompareProgram ==
    <<3, 21, 1008, 21, 8, 20, 1005, 20, 22, 107, 8, 21, 20, 1006, 20, 31,
      1106, 0, 36, 98, 0, 0, 1002, 21, 125, 20, 4, 20, 1105, 1, 46, 104,
      999, 1105, 1, 46, 1101, 1000, 1, 20, 4, 20, 1105, 1, 46, 98, 99>>

\* what the program is to write for the value v
Compared(v) == IF v < 8 THEN 999 ELSE IF v = 8 THEN 1000 ELSE 1001

\* C27: the compare-to-8 program never panics and never grows its tape;
\* every instruction it executes moves ip forward, to 46 at most, so that it
\* comes to an end; it suspends only before it has taken a value; it takes
\* one value, the first value v of the queue, and writes at most one, which
\* is 999 for v < 8, 1000 for v = 8 and 1001 for v > 8; and when it has
\* halted it has written exactly that value, the run state is Stopped of it
\* and a Vec for output holds it alone.
C27_CompareToEight ==
    /\ [](Runs(CompareProgram) =>
             /\ pc # "panicked"
             /\ VecLen(tape) = Len(CompareProgram)
             /\ ip <= 46
             /\ (pc = "idle" /\ ret = NeedInput) => (ip = 0 /\ taken = <<>>)
             /\ (pc = "idle" /\ ip > 0) => IsStopped(ret)
             /\ ip > 0 => taken = <<enqueued[1]>>
             /\ written # <<>> => (ip > 0 /\ written = <<Compared(enqueued[1])>>)
             /\ IsStopped(run_state) =>
                    /\ ip = 46
                    /\ written = <<Compared(enqueued[1])>>
                    /\ run_state = Stopped(Compared(enqueued[1]))
                    /\ out_kind = "Vec" => output = <<Compared(enqueued[1])>>)
    /\ [][(Runs(CompareProgram) /\ EngineStep /\ pc' = "running") => ip' > ip]_vars

\* C27 witness: run on the queue [8], the program has taken the branch that
\* multiplies and has halted with output [1000].
C27_Witness ==
    /\ Runs(CompareProgram)
    /\ out_kind = "Vec"
    /\ enqueued = <<8>>
    /\ ret = Stopped(1000)
    /\ pc = "idle"
    /\ output = <<1000>>

\* the program of the test quine
QuineProgram ==
    <<109, 1, 204, 0 - 1, 1001, 100, 1, 100, 1008, 100, 16, 101, 1006, 101,
      0, 99>>

\* how far the quine has come: 16 steps for every round of its loop, which
\* begins behind the adjustment of the relative base at ip 0
QuineProgress ==
    16 * relative_base
        + (CASE ip = 2 -> 0 [] ip = 4 -> 2 [] ip = 8 -> 6 [] ip = 12 -> 10
             [] ip = 0 -> 13 [] OTHER -> 14)

\* C28: run with or without input, the quine never panics, never suspends
\* and takes no value; every instruction it executes takes it further
\* through the at most 16 rounds of its loop, so that it comes to an end;
\* what it has written is at all times the program up to the word numbered
\* by the relative base, read through the operand -1 in Relative mode; the
\* counter it keeps in cell 100 starts from the 0 read beyond the tape of 16
\* cells, and its stores to 100 and 101 grow the tape to 101 and 102 cells,
\* zero between, and leave the 16 words of the program as they are.  When
\* it has halted the values written are the 16 words of the program and the
\* run state is Stopped(99).
C28_Quine ==
    /\ [](Runs(QuineProgram) =>
             /\ pc # "panicked"
             /\ run_state # NeedInput
             /\ taken = <<>>
             /\ ip \in {0, 2, 4, 8, 12, 15}
             /\ relative_base \in 0..16
             /\ Len(written) = IF ip = 2 THEN relative_base - 1 ELSE relative_base
             /\ written = SubSeq(QuineProgram, 1, Len(written))
             /\ out_kind = "Vec" => output = written
             /\ Cells(tape, 0, 16) = program
             /\ VecLen(tape) \in {16, 101, 102}
             /\ VecLen(tape) > 16 => Cells(tape, 16, 100) = Run(0, 84)
             /\ load(100) = IF ip \in {2, 4} THEN relative_base - 1
                            ELSE relative_base
             /\ load(101) \in {0, 1}
             /\ ip = 15 =>
                    /\ opcode = HALT
                    /\ relative_base = 16
                    /\ VecLen(tape) = 102
                    /\ load(101) = 1
             /\ IsStopped(run_state) =>
                    /\ ip = 15
                    /\ written = QuineProgram
                    /\ run_state = Stopped(99))
    /\ [][(Runs(QuineProgram) /\ EngineStep) =>
              \/ QuineProgress' > QuineProgress
              \/ pc' = "idle" /\ IsStopped(ret')]_vars

\* C28 witness: run with an empty queue, the quine has halted, a Vec for
\* output holds the 16 words of the program and the tape has 102 cells.
C28_Witness ==
    /\ Runs(QuineProgram)
    /\ out_kind = "Vec"
    /\ enqueued = <<>>
    /\ IsStopped(ret)
    /\ pc = "idle"
    /\ output = QuineProgram
    /\ VecLen(tape) = 102

\* the values of the two tests, parsed from their decimal digits
LargeNumber == Dec(<<1, 1, 2, 5, 8, 9, 9, 9, 0, 6, 8, 4, 2, 6, 2, 4>>)

WideFactor == Dec(<<3, 4, 9, 1, 5, 1, 9, 2>>)

WideProduct == Dec(<<1, 2, 1, 9, 0, 7, 0, 6, 3, 2, 3, 9, 6, 8, 6, 4>>)

\* tests::output_large_number and tests::output_16_digit_number
OutputLargeProgram == WideProgram(<<104>>, <<LargeNumber>>, <<99>>)

Output16DigitProgram ==
    WideProgram(<<1102>>, <<WideFactor, WideFactor>>, <<7, 4, 7, 99, 0>>)

\* every word of the tape and every value written is a word of the model:
\* below 2^63, without zero bytes at the top
IsWord(w) == /\ w \in Seq(0..255)
             /\ w = strip(w)
             /\ ~i64_lt(I64_MAX, w)

WideInRange ==
    /\ \A k \in 1..Len(tape) : IsWord(tape[k][1])
    /\ \A k \in 1..Len(written) : IsWord(written[k])
    /\ IsWord(last_output)

\* C29: a value beyond 32 bits goes through load, Multiply, store and Output
\* unchanged.  The program 104,1125899906842624,99 writes exactly
\* 1125899906842624 and halts with it; the program
\* 1102,34915192,34915192,7,4,7,99,0 stores exactly 1219070632396864 in
\* cell 7, writes exactly that value and halts with it.  Neither value fits
\* in 32 bits, neither run panics, and the bytes beyond the fourth are kept.
C29_WideValuesExact ==
    /\ ~i64_is_small(LargeNumber) /\ low32(LargeNumber) # LargeNumber
    /\ ~i64_is_small(WideProduct) /\ low32(WideProduct) # WideProduct
    /\ program = OutputLargeProgram =>
          /\ pc # "panicked"
          /\ ip \in {0, 2}
          /\ tape = program
          /\ ip = 0 => written = <<>>
          /\ ip = 2 => /\ written = <<LargeNumber>>
                       /\ output = written
                       /\ last_output = LargeNumber
          /\ IsStopped(run_state) => /\ run_state = Stopped(LargeNumber)
                                     /\ ip = 2
          /\ IsStopped(ret) => ret = Stopped(LargeNumber)
    /\ program = Output16DigitProgram =>
          /\ pc # "panicked"
          /\ ip \in {0, 4, 6}
          /\ ip = 0 => tape = program /\ written = <<>>
          /\ ip >= 4 => /\ VecLen(tape) = 8
                        /\ Cell(tape, 7) = WideProduct
                        /\ Cells(tape, 0, 7) = Cells(program, 0, 7)
          /\ ip = 4 => written = <<>>
          /\ ip = 6 => /\ written = <<WideProduct>>
                       /\ output = written
                       /\ last_output = WideProduct
          /\ IsStopped(run_state) => /\ run_state = Stopped(WideProduct)
                                     /\ ip = 6
          /\ IsStopped(ret) => ret = Stopped(WideProduct)

C29_Witness ==
    /\ program = Output16DigitProgram
    /\ pc = "idle"
    /\ ret = Stopped(WideProduct)
    /\ output = <<WideProduct>>
    /\ Len(WideProduct) = 7

\* the engine of day 9 is at an INPUT whose read yields Err: the queue is
\* empty
D9ReadFails ==
    /\ main_pc = <<"off">>
    /\ pc = "running"
    /\ modes_valid
    /\ opcode = INPUT
    /\ read = <<"Err">>

\* engine i of the ring is at an INPUT whose read yields Err: its channel is
\* empty and the Sender of the channel is gone
D7ReadFails(i) ==
    /\ amp_pc[i] = "running"
    /\ d7_decodes(i)
    /\ d7_opcode(i) = INPUT
    /\ recv(amp_rx[i]) = <<"Err">>

\* what engine i of the ring owns
D7Engine(i) == <<amp_tape[i], amp_ip[i], amp_last_output[i], amp_read[i],
                 amp_written[i]>>

\* C30: in the engines of days 7 and 9, which call the blocking read, an
\* INPUT whose read yields Err is fatal.  Day 9: the step of the engine at
\* such an INPUT is a panic that leaves tape, ip, queue and output as they
\* are and stores nothing; a panicked engine takes no further step; and
\* run_program never yields NeedInput, it returns last_output or nothing.
\* Day 7: an engine at such an INPUT keeps its tape, ip and values read,
\* its channel stays empty,
\* and either stays at the INPUT, still failing, or panics; a panicked
\* engine stays panicked; and the main thread never returns a result once an
\* engine has panicked.
C30_ReadErrorIsFatal ==
    /\ [][D9ReadFails =>
            /\ pc' = "panicked"
            /\ UNCHANGED <<tape, ip, input, taken, output, written,
                           last_output, relative_base, run_state, ret>>]_vars
    /\ [][pc # "panicked"]_vars
    /\ [](main_pc = <<"off">> =>
            /\ run_state = NotYetStarted
            /\ ret \in {<<"none">>, Returned(last_output)})
    /\ [][\A i \in Amps :
            D7ReadFails(i) =>
                /\ D7Engine(i)' = D7Engine(i)
                /\ chan'[amp_rx[i]] = chan[amp_rx[i]]
                /\ \/ amp_pc'[i] = "panicked"
                   \/ amp_pc'[i] = "running" /\ D7ReadFails(i)']_vars
    /\ [][\A i \in Amps :
            amp_pc[i] = "panicked" =>
                amp_pc'[i] = "panicked" /\ D7Engine(i)' = D7Engine(i)]_vars
    /\ []((\E i \in Amps : amp_pc[i] = "panicked") =>
             main_pc # <<"returned">>)

\* the engine of day 9 has read one value, written it, and panicked at its
\* second INPUT, at address 4, on the empty queue
C30_Witness ==
    /\ main_pc = <<"off">>
    /\ pc = "panicked"
    /\ ip = 4
    /\ opcode = INPUT
    /\ input = <<>>
    /\ taken = enqueued
    /\ Len(taken) = 1
    /\ written = taken
    /\ tape = set(resize(program, 10, 0), 9, taken[1])

\* an engine of the ring has panicked at an INPUT whose Sender was gone
RingReadFailed ==
    \E i \in Amps :
        /\ amp_pc[i] = "panicked"
        /\ d7_decodes(i)
        /\ d7_opcode(i) = INPUT
        /\ recv(amp_rx[i]) = <<"Err">>
        /\ amp_read[i] # <<>>

\* w mod 100000 of a whole word: its last five decimal digits
RECURSIVE i64_mod100000(_)
i64_mod100000(w) ==
    IF w = <<>> THEN 0
    ELSE (w[1] + BYTE * i64_mod100000(Tail(w))) % 100000

\* the last five decimal digits of the word at ip
DecimalInstruction == i64_mod100000(wide_load(ip))

\* C31 as stated: for every word w >= 0 at ip, words of 2^32 and more
\* included, the opcode dispatched is w mod 100 and the three modes are the
\* hundreds, thousands and ten-thousands digits of w.
C31_DecodeIsDecimal ==
    [][pc = "running" =>
          /\ ev'.op = DecimalInstruction % 100
          /\ wide_modes(0) = ParameterModeFrom((DecimalInstruction \div 100) % 10)
          /\ wide_modes(1) = ParameterModeFrom((DecimalInstruction \div 1000) % 10)
          /\ wide_modes(2) = ParameterModeFrom((DecimalInstruction \div 10000) % 10)
      ]_vars

\* for a word below 2^32 at ip the decoding is the decimal one
DecodeBelow32Bits ==
    [][(pc = "running" /\ Len(wide_load(ip)) <= 4) =>
          /\ ev'.op = DecimalInstruction % 100
          /\ wide_instruction = DecimalInstruction]_vars

\* the cell at address a of the tape as the instruction finds it, 0 beyond
\* the tape; an address below 0 is beyond the tape (see AsUsize)
CellAtStart(a) == IF a >= 0 /\ a < VecLen(tape) THEN Cell(tape, a) ELSE 0

\* the value of the source operand at offset o by the sentence of the spec
SourceOperand(o, mode) ==
    CASE mode = "Position" -> CellAtStart(CellAtStart(o))
      [] mode = "Immediate" -> CellAtStart(o)
      [] mode = "Relative" -> CellAtStart(CellAtStart(o) + relative_base)

\* C32: a source operand at offset o is load(load(o)) in Position mode,
\* load(o) in Immediate mode and load(load(o) + relative_base) in Relative
\* mode, read from the tape and the relative base as the instruction finds
\* them, and reading it changes nothing.  Output writes that value and
\* leaves tape, relative base and input carrier alone; Adjust-relative-base
\* adds it; the jumps test the first and go to the second and change
\* nothing but ip; the arithmetic instructions store the combination of the
\* two values read before the store, and change nothing at all when the
\* store panics.
C32_SourceOperands ==
    [][(EngineStep /\ modes_valid /\ opcode \in Opcodes) =>
          LET a == SourceOperand(ip + 1, modes(0))
              b == SourceOperand(ip + 2, modes(1))
          IN  /\ opcode = OUTPUT =>
                    /\ ev'.val = a
                    /\ last_output' = a
                    /\ written' = Append(written, a)
                    /\ UNCHANGED <<tape, relative_base, input, run_state>>
              /\ opcode = RELATIVE_BASE_OFFSET =>
                    /\ relative_base' = relative_base + a
                    /\ UNCHANGED <<tape, input, output, last_output, run_state>>
              /\ opcode \in {JUMP_IF_TRUE, JUMP_IF_FALSE} =>
                    /\ ip' = IF (opcode = JUMP_IF_TRUE) = (a # 0)
                             THEN AsUsize(b) ELSE ip + 3
                    /\ UNCHANGED <<tape, relative_base, input, output,
                                   last_output, run_state>>
              /\ opcode \in {ADD, MULTIPLY, LESS_THAN, EQUALS} =>
                    IF pc' = "panicked"
                    THEN UNCHANGED engine
                    ELSE /\ ev'.val = operation(a, b, opcode)
                         /\ Cell(tape', ev'.addr) = operation(a, b, opcode)
                         /\ UNCHANGED <<relative_base, input, output,
                                        last_output, run_state>>
      ]_vars

\* C32 witness: the Output word 204 has been executed behind a relative
\* base of 3 and has written the cell its operand word and the base name, a
\* cell that is not 0.
C32_Witness ==
    /\ pc = "running"
    /\ ev.act = "exec"
    /\ ev.op = OUTPUT
    /\ ip = 4
    /\ Cell(program, 2) = 204
    /\ relative_base = 3
    /\ tape = program
    /\ ev.val = Cell(program, Cell(program, 3) + 3)
    /\ ev.val # 0
    /\ written = <<ev.val>>

\* the effect column of the table of the spec for opcodes 1, 2, 7 and 8
TableResult(op, a, b) ==
    CASE op = 1 -> a + b
      [] op = 2 -> a * b
      [] op = 7 -> IF a < b THEN 1 ELSE 0
      [] op = 8 -> IF a = b THEN 1 ELSE 0

\* C33: an instruction of opcode 1, 2, 7 or 8 that completes leaves a + b,
\* a * b, (1 if a < b else 0) or (1 if a = b else 0) in the destination
\* cell, a and b being the two source operands as read from the tape before
\* the store, and ip + 4 in ip.  Of the tape it changes the destination cell
\* alone, but for the cells a store beyond the extent creates, which hold 0;
\* relative base, last output, both carriers and the run state stay as they
\* are, and nothing is read or written.
C33_Arithmetic ==
    [][(/\ EngineStep
        /\ modes_valid
        /\ opcode \in {1, 2, 7, 8}
        /\ pc' = "running") =>
          LET a == SourceOperand(ip + 1, modes(0))
              b == SourceOperand(ip + 2, modes(1))
              d == AsUsize(CellAtStart(ip + 3)
                           + IF modes(2) = "Relative" THEN relative_base ELSE 0)
              n == VecLen(tape)
          IN  /\ modes(2) # "Immediate"
              /\ Cell(tape', d) = TableResult(opcode, a, b)
              /\ ip' = ip + 4
              /\ IF d >= n
                 THEN /\ VecLen(tape') = d + 1
                      /\ Prefix(tape', n) = tape
                      /\ Cells(tape', n, d) = Run(0, d - n)
                 ELSE /\ VecLen(tape') = n
                      /\ Prefix(tape', d) = Prefix(tape, d)
                      /\ Suffix(tape', d + 1) = Suffix(tape, d + 1)
              /\ UNCHANGED <<relative_base, last_output, input, output,
                             rx_alive, run_state, written, taken, ret>>
      ]_vars

\* C33 witness: the Less-than word 1107 has compared two equal operand
\* words, stored 0 beyond the extent of its seven-cell tape, at address 9,
\* and left ip at 4.
C33_Witness ==
    /\ pc = "running"
    /\ ev.act = "exec"
    /\ ev.op = LESS_THAN
    /\ ip = 4
    /\ Cell(program, 0) = 1107
    /\ Cell(program, 1) = Cell(program, 2)
    /\ Cell(program, 3) = 9
    /\ VecLen(program) = 7
    /\ VecLen(tape) = 10
    /\ Cell(tape, 9) = 0
    /\ Prefix(tape, 7) = program

\* the jump is taken: Jump-if-true on a first operand that is not 0,
\* Jump-if-false on one that is 0
JumpTaken(a) == \/ opcode = 5 /\ a # 0
                \/ opcode = 6 /\ a = 0

\* C34 as stated: a jump that is taken sets ip to the value of the second
\* operand, whatever that value; one that is not taken advances ip by 3;
\* tape, relative base and carriers stay as they are.
C34_Jumps ==
    [][(EngineStep /\ modes_valid /\ opcode \in {5, 6}) =>
          LET a == SourceOperand(ip + 1, modes(0))
              b == SourceOperand(ip + 2, modes(1))
          IN  /\ ip' = IF JumpTaken(a) THEN b ELSE ip + 3
              /\ UNCHANGED <<tape, relative_base, input, output, rx_alive>>
      ]_vars

\* C34, amended: a jump that is taken sets ip to the value of the second
\* operand when that value is not negative, and to that value plus 2^64
\* (the cast to usize) when it is negative; one that is not taken advances
\* ip by 3; tape, relative base, carriers, last output and run state stay as
\* they are.  With ip at or beyond the extent of the tape, as after a jump
\* to a negative target, the next step is fatal and changes nothing.
C34_Jumps_Amended ==
    /\ [][(EngineStep /\ modes_valid /\ opcode \in {5, 6}) =>
            LET a == SourceOperand(ip + 1, modes(0))
                b == SourceOperand(ip + 2, modes(1))
            IN  /\ ip' = IF ~JumpTaken(a) THEN ip + 3
                         ELSE IF b >= 0 THEN b
                         ELSE USIZE_TOP + b
                /\ (JumpTaken(a) /\ b < 0) => ip' >= VecLen(tape')
                /\ pc' = "running"
                /\ UNCHANGED <<tape, relative_base, input, output, rx_alive,
                               last_output, run_state, ret, written, taken>>
          ]_vars
    /\ [][(EngineStep /\ ip >= VecLen(tape)) =>
            /\ pc' = "panicked"
            /\ UNCHANGED engine]_vars

\* C34 witness: the Jump-if-true word 1105 has found a first operand that
\* is not 0 and a second operand of -1, and has left ip at 2^64 - 1.
C34_Witness ==
    /\ pc = "running"
    /\ ev.act = "exec"
    /\ ev.op = JUMP_IF_TRUE
    /\ Cell(program, 0) = 1105
    /\ Cell(program, 1) # 0
    /\ Cell(program, 2) = 0 - 1
    /\ ip = USIZE_TOP - 1
    /\ tape = program

\* a jump has been taken to a target that is not negative, another has not
\* been taken
JumpTakenTo3 ==
    /\ pc = "running"
    /\ ev.act = "exec"
    /\ ev.op = JUMP_IF_FALSE
    /\ Cell(program, 0) = 1106
    /\ Cell(program, 1) = 0
    /\ ip = 3
    /\ tape = program

JumpNotTaken ==
    /\ pc = "running"
    /\ ev.act = "exec"
    /\ ev.op = JUMP_IF_FALSE
    /\ Cell(program, 0) = 1106
    /\ Cell(program, 1) = 3
    /\ Cell(program, 2) = 0 - 1
    /\ ip = 3
    /\ tape = program

\* the engines that have been given their endpoints
Spawned == {i \in Amps : amp_pc[i] # "unspawned"}

\* the second loop has run to its end
AllSpawned == main_pc[1] \in {"join", "returned", "panicked"}

\* the engine that consumes what engine i produces
Consumer(i) == CHOOSE j \in Amps : amp_rx[j] = amp_tx[i]

\* the engine k links downstream of engine i
RECURSIVE Hop(_, _)
Hop(i, k) == IF k = 0 THEN i ELSE Consumer(Hop(i, k - 1))

\* C35: the second loop of run_amplifier_chain_with_feedback hands every
\* engine one Sender and one Receiver.  At any time no two engines hold the
\* Sender of one channel or the Receiver of one channel, and no engine
\* holds both ends of a channel.  Once the loop has run, the main thread
\* keeps no endpoint, every channel has exactly one producer and exactly
\* one consumer, and the links from producer to consumer lead from every
\* engine through all five and back to it after five links and not before.
C35_SingleCycle ==
    /\ \A i \in Spawned :
          /\ amp_tx[i] \in Amps
          /\ amp_rx[i] \in Amps
          /\ amp_tx[i] # amp_rx[i]
          /\ \A j \in Spawned \ {i} :
                amp_tx[j] # amp_tx[i] /\ amp_rx[j] # amp_rx[i]
    /\ \A i \in Amps \ Spawned : amp_tx[i] = NoAddr /\ amp_rx[i] = NoAddr
    /\ AllSpawned =>
          /\ Spawned = Amps
          /\ txs = <<>> /\ rxs = <<>>
          /\ \A c \in Amps :
                /\ Cardinality({i \in Amps : amp_tx[i] = c}) = 1
                /\ Cardinality({i \in Amps : amp_rx[i] = c}) = 1
          /\ \A i \in Amps :
                /\ {Hop(i, k) : k \in 0..4} = Amps
                /\ Hop(i, 5) = i
                /\ \A k \in 1..4 : Hop(i, k) # i

\* C35 witness: all five engines are spawned, engine i sends on channel i
\* and receives from channel i + 1, engine 4 from channel 0, and values
\* have gone round: engine 4 has read what engine 0 has written.
C35_Witness ==
    /\ AllSpawned
    /\ amp_tx = [i \in Amps |-> i]
    /\ amp_rx = [i \in Amps |-> (i + 1) % AMPLIFIERS]
    /\ Consumer(0) = 4
    /\ amp_written[0] # <<>>
    /\ Len(amp_read[4]) = 2
    /\ amp_read[4][2] = amp_written[0][1]

\* The engine as a function of a Computer c with a VecDeque for input and a
\* Vec for output: the state one iteration of the loop of resume() leaves.
f_load(c, address) ==
    IF address < VecLen(c.tape) THEN Cell(c.tape, address) ELSE 0

f_opcode(c) == u32_mod100(f_load(c, c.ip))

f_modes(c, i) ==
    LET digits == u32_div100(f_load(c, c.ip))
    IN  ParameterModeFrom(CASE i = 0 -> digits % 10
                            [] i = 1 -> (digits \div 10) % 10
                            [] i = 2 -> (digits \div 100) % 10)

f_load_operand(c, offset, mode) ==
    CASE mode = "Position" -> f_load(c, AsUsize(f_load(c, offset)))
      [] mode = "Immediate" -> f_load(c, offset)
      [] mode = "Relative" ->
            f_load(c, AsUsize(f_load(c, offset) + c.relative_base))

\* store_operand panics: Immediate mode, or an address store cannot grow to
f_store_operand_panics(c, offset, mode) ==
    \/ mode = "Immediate"
    \/ LET address == IF mode = "Position" THEN AsUsize(f_load(c, offset))
                      ELSE AsUsize(f_load(c, offset) + c.relative_base)
       IN  address >= VecLen(c.tape) /\ ~(address < MAX_MEMORY)

\* the tape store_operand leaves
f_store_operand(c, offset, mode, value) ==
    LET address == IF mode = "Position" THEN AsUsize(f_load(c, offset))
                   ELSE AsUsize(f_load(c, offset) + c.relative_base)
        resized == IF address >= VecLen(c.tape)
                   THEN resize(c.tape, address + 1, 0)
                   ELSE c.tape
    IN  set(resized, address, value)

f_execute_instruction(c) ==
    LET op == f_opcode(c)
        panicked == [c EXCEPT !.pc = "panicked"]
    IN  IF \E i \in 0..2 : f_modes(c, i) = "Invalid" THEN panicked
        ELSE CASE op \in {ADD, MULTIPLY, LESS_THAN, EQUALS} ->
                    IF f_store_operand_panics(c, c.ip + 3, f_modes(c, 2))
                    THEN panicked
                    ELSE [c EXCEPT
                            !.tape = f_store_operand(c, c.ip + 3, f_modes(c, 2),
                                        operation(
                                          f_load_operand(c, c.ip + 1, f_modes(c, 0)),
                                          f_load_operand(c, c.ip + 2, f_modes(c, 1)),
                                          op)),
                            !.ip = c.ip + 4]
               [] op = INPUT ->
                    IF c.input = <<>>
                    THEN [c EXCEPT !.run_state = NeedInput, !.pc = "idle"]
                    ELSE IF f_store_operand_panics(c, c.ip + 1, f_modes(c, 0))
                    THEN [panicked EXCEPT !.input = Tail(c.input)]
                    ELSE [c EXCEPT
                            !.input = Tail(c.input),
                            !.tape = f_store_operand(c, c.ip + 1, f_modes(c, 0),
                                                     Head(c.input)),
                            !.ip = c.ip + 2]
               [] op = OUTPUT ->
                    LET v == f_load_operand(c, c.ip + 1, f_modes(c, 0))
                    IN  [c EXCEPT !.output = Append(c.output, v),
                                  !.last_output = v,
                                  !.ip = c.ip + 2]
               [] op \in {JUMP_IF_TRUE, JUMP_IF_FALSE} ->
                    [c EXCEPT
                        !.ip = IF should_jump(
                                    f_load_operand(c, c.ip + 1, f_modes(c, 0)), op)
                               THEN AsUsize(
                                    f_load_operand(c, c.ip + 2, f_modes(c, 1)))
                               ELSE c.ip + 3]
               [] op = RELATIVE_BASE_OFFSET ->
                    [c EXCEPT
                        !.relative_base = c.relative_base
                            + f_load_operand(c, c.ip + 1, f_modes(c, 0)),
                        !.ip = c.ip + 2]
               [] op = HALT ->
                    [c EXCEPT !.run_state = Stopped(c.last_output),
                              !.pc = "idle"]
               [] OTHER -> panicked

\* the longest run of the loop of resume() the programs of the model make
MaxSteps == 200

\* the loop of resume(): until the engine suspends, stops or panics
RECURSIVE f_loop(_, _)
f_loop(c, fuel) ==
    IF c.pc # "running" \/ fuel = 0 THEN c
    ELSE f_loop(f_execute_instruction(c), fuel - 1)

\* Computer::new(0, &p, queue, Vec::new()) followed by run_program()
BatchRun(p, queue) ==
    f_loop([tape |-> p, input |-> queue, output |-> <<>>, last_output |-> 0,
            ip |-> 0, run_state |-> NotYetStarted, relative_base |-> 0,
            pc |-> "running"], MaxSteps)

\* the engine of this behaviour, its Output instructions for its output
ThisComputer ==
    [tape |-> tape, input |-> input, output |-> written,
     last_output |-> last_output, ip |-> ip, run_state |-> run_state,
     relative_base |-> relative_base, pc |-> pc]

\* what the claim compares: tape, ip, relative base, output and run state
\* (of an engine that panicked, which no caller gets to see, what it left
\* behind but for the run state of its last return)
Outcome(c) ==
    <<c.tape, c.ip, c.relative_base, c.output, c.pc,
      IF c.pc = "panicked" THEN <<>> ELSE c.run_state>>

\* the engine has returned from a call and has nothing left to read, or has
\* stopped, or has panicked
Settled ==
    \/ pc = "idle" /\ ret = NeedInput /\ input = <<>>
    \/ pc = "idle" /\ IsStopped(ret)
    \/ pc = "panicked"

\* C36: the values of a FIFO queue reach the engine in the order they were
\* pushed, whenever they were pushed.  An engine that was given its values
\* in any portions (all of them before the first run, one at each
\* NeedInput, or any mixture) and has returned with nothing left to read,
\* or has stopped, is in the state the engine given all of the values
\* before its first run ends in: the same tape, ip, relative base, output
\* sequence and run state, Stopped value included.  The function the
\* batch run is computed by is the engine of every step of the behaviour.
C36_BatchEqualsIncremental ==
    /\ [][EngineStep => ThisComputer' = f_execute_instruction(ThisComputer)]_vars
    /\ [](Settled =>
            LET batch == BatchRun(program, enqueued)
            IN  /\ Outcome(ThisComputer) = Outcome(batch)
                /\ IsStopped(ret) => ret = batch.run_state
                /\ out_kind = "Vec" => output = batch.output)

\* C36 witness: an engine has been given two different values, has read
\* both, written the first and stopped; some behaviours reach this state
\* with both values pushed before the first run, others with one value
\* pushed at each of two suspensions.
C36_Witness ==
    /\ pc = "idle"
    /\ IsStopped(ret)
    /\ Len(enqueued) = 2
    /\ enqueued[1] # enqueued[2]
    /\ taken = enqueued
    /\ ev.act = "exec"
    /\ to_vec(program) = <<3, 9, 4, 9, 3, 10, 104, 5, 99>>
    /\ to_vec(tape) = <<3, 9, 4, 9, 3, 10, 104, 5, 99, enqueued[1], enqueued[2]>>
    /\ written = <<enqueued[1], 5>>

\* the number of operands of an opcode, 0 for a number that is no opcode
Arity(op) ==
    CASE op \in {1, 2, 7, 8} -> 3
      [] op \in {5, 6} -> 2
      [] op \in {3, 4, 9} -> 1
      [] OTHER -> 0

\* one of the three mode digits of the word at ip is in 3..9
BadDigit == \E k \in 1..3 : Digit(instruction, k) \in 3..9

\* a mode digit in 3..9 stands at a position the opcode has no operand for
BadUnusedDigit ==
    \E k \in 1..3 : /\ Digit(instruction, k) \in 3..9
                    /\ k > Arity(instruction % 100)

\* C37: the three mode digits are checked before the opcode is looked at.
\* A word (not negative) one of whose hundreds, thousands and ten-thousands
\* digits is in 3..9 panics, also when the digit stands at a position the
\* opcode has no operand for, and the step changes nothing: tape, ip,
\* relative base, last output, run state and both carriers stay as they
\* are, nothing is read and nothing is written.
C37_ModesCheckedFirst ==
    [][(EngineStep /\ instruction >= 0 /\ BadDigit) =>
          /\ pc' = "panicked"
          /\ ev'.act = "panic"
          /\ UNCHANGED <<engine, rx_alive, written, taken, ret>>
      ]_vars

\* C37 witness: the word 30003, an Input whose one operand is in Position
\* mode and whose ten-thousands digit is 3, has panicked with a value
\* pending, which is still pending.
C37_Witness ==
    /\ pc = "panicked"
    /\ ev.act = "panic"
    /\ instruction = 30003
    /\ BadUnusedDigit
    /\ ip = 0
    /\ tape = program
    /\ input = <<7>>
    /\ taken = <<>>

\* the same for a Halt, an Output, a jump and an Adjust-relative-base
UnusedDigitPanicked ==
    {w \in {3099, 30004, 30105, 3109} :
        pc = "panicked" /\ instruction = w /\ BadUnusedDigit /\ tape = program}

\* the orderings of the five phase settings the search was called with
AllPermutations ==
    LET base == IF feedback THEN PHASE_SETTINGS_FEEDBACK ELSE PHASE_SETTINGS
    IN  {p \in [1..AMPLIFIERS -> {base[k] : k \in 1..AMPLIFIERS}] :
            \A j, k \in 1..AMPLIFIERS : j # k => p[j] # p[k]}

\* the phase settings the chain was run with, and the values it produced
Tried == {t[1] : t \in thruster_inputs}

ThrusterValues == {t[2] : t \in thruster_inputs}

\* the search has run the chain once with each of the 120 orderings
TriedAll ==
    /\ Tried = AllPermutations
    /\ Cardinality(Tried) = 120
    /\ Cardinality(thruster_inputs) = 120

\* C38: what find_best_phase_settings returns is the maximum of the thruster
\* values the chain produced for the 120 orderings of the phase settings:
\* the chain was run with every ordering, the value returned is one of the
\* values produced, and none of them is greater.
C38_BestIsMaximum ==
    find_pc = <<"returned">> =>
        /\ TriedAll
        /\ highest_thruster_value \in ThrusterValues
        /\ \A v \in ThrusterValues : v <= highest_thruster_value

\* what the search returns is the maximum of 0 and the values produced
BestIsMaximumOrZero ==
    find_pc = <<"returned">> =>
        /\ TriedAll
        /\ highest_thruster_value \in ThrusterValues \cup {0}
        /\ \A v \in ThrusterValues \cup {0} : v <= highest_thruster_value

\* tests::amplifier_example_1: the search returns 43210
Example1Returned ==
    /\ find_pc = <<"returned">>
    /\ program = Vec(AmplifierExample1)
    /\ highest_thruster_value = 43210
    /\ <<<<4, 3, 2, 1, 0>>, 43210>> \in thruster_inputs

\* the search with feedback has returned one of the values of the ring
FeedbackReturned ==
    /\ find_pc = <<"returned">>
    /\ feedback
    /\ highest_thruster_value \in ThrusterValues

\* the search has returned 0 for a chain that yields -1 for each ordering
ZeroReturned ==
    /\ find_pc = <<"returned">>
    /\ highest_thruster_value = 0
    /\ ThrusterValues = {0 - 1}

\* run_program has returned to dry_run, which is in its loop
EngineReturned == robot_pc = "dry_run" /\ pc = "idle" /\ ret # <<"none">>

\* C39: the loop of dry_run on the run state comes to an end for each run
\* state run_program returns, NeedInput as well as Stopped: once the engine
\* has returned, dry_run eventually goes on to read the camera output.
C39_DryRunLoopEnds == EngineReturned ~> (robot_pc = "camera")

\* the loop comes to an end when run_program has returned Stopped
StoppedLoopEnds ==
    (EngineReturned /\ IsStopped(ret)) ~> (robot_pc = "camera")

\* the loop is never left when run_program has returned NeedInput: the run
\* state matched stays the same, and the camera output is never read
NeedInputLoopStays ==
    [][(EngineReturned /\ ret = NeedInput) =>
          (EngineReturned' /\ ret' = NeedInput /\ UNCHANGED engine)]_vars

\* the loop has printed MaxPrinted - 1 lines for NeedInput
NeedInputPrinted ==
    /\ EngineReturned
    /\ ret = NeedInput
    /\ printed = MaxPrinted - 1

\* dry_run has gone on to the camera output after a Stopped
CameraReached ==
    /\ robot_pc = "camera"
    /\ IsStopped(ret)
    /\ written = <<35, 10>>

\* every tape is in its one encoding: runs of positive length, neighbours of
\* different values
Canonical(t) ==
    /\ \A i \in 1..Len(t) : t[i][2] > 0
    /\ \A i \in 1..(Len(t) - 1) : t[i][1] # t[i + 1][1]

TapeIsCanonical == Canonical(tape) /\ Canonical(program)

====
